---- MODULE Spec2Model ----
(***************************************************************************)
(* Model of the research toolkit's resource library: value objects, the    *)
(* filesystem store, the JSONL keyword indexer and the library use cases   *)
(* (ingest, search-and-store, reindex, query).                             *)
(*                                                                         *)
(* Text.  A Python str is modelled character by character as a sequence    *)
(* of runs <<ch, n>> (the one-character string ch repeated n >= 1 times),  *)
(* kept canonical: adjacent runs carry different characters.  The run      *)
(* length lets a body longer than the indexer's 10,000 character cap or a  *)
(* line longer than the 200 character title limit be written down.        *)
(***************************************************************************)
EXTENDS Integers, Sequences, FiniteSets, TLC

\* F(e) with e evaluated once: TLC otherwise evaluates a LET definition or an
\* operator argument again at every use
Eval(e, F(_)) == CHOOSE r \in {F(v) : v \in {e}} : TRUE

(***************************************************************************)
(* str primitives                                                          *)
(***************************************************************************)
RECURSIVE Norm(_)
Norm(t) ==
    IF Len(t) < 2 THEN t
    ELSE IF t[1][1] = t[2][1]
         THEN Norm(<<<<t[1][1], t[1][2] + t[2][2]>>>> \o SubSeq(t, 3, Len(t)))
         ELSE <<t[1]>> \o Norm(Tail(t))

Lit(s) == Norm([i \in 1..Len(s) |-> <<s[i], 1>>])

Rep(ch, n) == IF n = 0 THEN <<>> ELSE <<<<ch, n>>>>

Cat(a, b) == Norm(a \o b)

RECURSIVE TLen(_)
TLen(t) == IF t = <<>> THEN 0 ELSE t[1][2] + TLen(Tail(t))

\* t[:k]
RECURSIVE Take(_, _)
Take(t, k) ==
    IF k <= 0 \/ t = <<>> THEN <<>>
    ELSE IF t[1][2] >= k THEN <<<<t[1][1], k>>>>
         ELSE <<t[1]>> \o Take(Tail(t), k - t[1][2])

\* t[k:]
RECURSIVE Drop(_, _)
Drop(t, k) ==
    IF k <= 0 \/ t = <<>> THEN t
    ELSE IF t[1][2] > k THEN <<<<t[1][1], t[1][2] - k>>>> \o Tail(t)
         ELSE Drop(Tail(t), k - t[1][2])

StartsWith(t, p) == Take(t, TLen(p)) = p

UpperToLower ==
    [c \in {"A","B","C","D","E","F","G","H","I","J","K","L","M",
            "N","O","P","Q","R","S","T","U","V","W","X","Y","Z"} |->
       CASE c = "A" -> "a" [] c = "B" -> "b" [] c = "C" -> "c" [] c = "D" -> "d"
         [] c = "E" -> "e" [] c = "F" -> "f" [] c = "G" -> "g" [] c = "H" -> "h"
         [] c = "I" -> "i" [] c = "J" -> "j" [] c = "K" -> "k" [] c = "L" -> "l"
         [] c = "M" -> "m" [] c = "N" -> "n" [] c = "O" -> "o" [] c = "P" -> "p"
         [] c = "Q" -> "q" [] c = "R" -> "r" [] c = "S" -> "s" [] c = "T" -> "t"
         [] c = "U" -> "u" [] c = "V" -> "v" [] c = "W" -> "w" [] c = "X" -> "x"
         [] c = "Y" -> "y" [] c = "Z" -> "z"]

\* str.lower()
Lower(t) ==
    Norm([i \in 1..Len(t) |->
            <<IF t[i][1] \in DOMAIN UpperToLower THEN UpperToLower[t[i][1]] ELSE t[i][1],
              t[i][2]>>])

\* the characters str.strip() removes
Whitespace == {" ", "\n", "\t", "\r", "\f"}

RECURSIVE LStripChars(_, _)
LStripChars(t, cs) ==
    IF t # <<>> /\ t[1][1] \in cs THEN LStripChars(Tail(t), cs) ELSE t

RECURSIVE RStripChars(_, _)
RStripChars(t, cs) ==
    IF t # <<>> /\ t[Len(t)][1] \in cs THEN RStripChars(SubSeq(t, 1, Len(t) - 1), cs) ELSE t

\* str.strip(chars)
StripChars(t, cs) == RStripChars(LStripChars(t, cs), cs)

\* str.strip()
Strip(t) == StripChars(t, Whitespace)

\* str.split("\n"): the lines between the newline characters
RECURSIVE SplitFrom(_, _, _)
SplitFrom(t, cur, sep) ==
    IF t = <<>> THEN <<cur>>
    ELSE IF t[1][1] = sep
         THEN <<cur>> \o [i \in 1..(t[1][2] - 1) |-> <<>>] \o SplitFrom(Tail(t), <<>>, sep)
         ELSE SplitFrom(Tail(t), cur \o <<t[1]>>, sep)

Split(t, sep) == SplitFrom(t, <<>>, sep)

\* str.split(":", 1)[1]: what follows the first colon
RECURSIVE AfterFirst(_, _)
AfterFirst(t, ch) ==
    IF t = <<>> THEN <<>>
    ELSE IF t[1][1] = ch THEN Drop(t, 1)
         ELSE AfterFirst(Tail(t), ch)

(***************************************************************************)
(* Title extraction (IngestResource._extract_title, Reindex._extract_title)*)
(***************************************************************************)
TitleMaxLen == 200

Dashes == <<<<"-", 3>>>>
Pluses == <<<<"+", 3>>>>
TitleKey == Lit(<<"t", "i", "t", "l", "e", ":">>)
HeadingMark == Lit(<<"#", " ">>)

\* a scan's result: <<title>> when it returned, <<>> when it fell through
Found(v) == <<v>>
NoTitle == <<>>

\* for raw in lines[1:]: stop at the closing delimiter, return a non-empty title: value
RECURSIVE FrontmatterTitle(_, _)
FrontmatterTitle(ls, delimiter) ==
    IF ls = <<>> THEN NoTitle
    ELSE LET stripped == Strip(ls[1]) IN
         IF stripped = delimiter THEN NoTitle
         ELSE IF StartsWith(Lower(stripped), TitleKey)
              THEN LET val == StripChars(Strip(AfterFirst(stripped, ":")), {"'", "\""}) IN
                   IF val # <<>> THEN Found(val)
                   ELSE FrontmatterTitle(Tail(ls), delimiter)
              ELSE FrontmatterTitle(Tail(ls), delimiter)

\* body_start: one past the 0-based index of the first line of lines[1:] that is
\* the delimiter, 0 when there is none (i is the 0-based index looked at)
RECURSIVE BodyStart(_, _, _)
BodyStart(lines, i, delimiter) ==
    IF i >= Len(lines) THEN 0
    ELSE IF Strip(lines[i + 1]) = delimiter THEN i + 1
         ELSE BodyStart(lines, i + 1, delimiter)

\* for raw in lines[body_start:]: first heading, or first short line that is no delimiter
RECURSIVE ScanBody(_)
ScanBody(ls) ==
    IF ls = <<>> THEN NoTitle
    ELSE LET stripped == Strip(ls[1]) IN
         IF StartsWith(stripped, HeadingMark) THEN Found(Strip(Drop(stripped, 2)))
         ELSE IF /\ stripped # <<>>
                 /\ ~StartsWith(stripped, Dashes)
                 /\ ~StartsWith(stripped, Pluses)
                 /\ TLen(stripped) < TitleMaxLen
              THEN Found(stripped)
              ELSE ScanBody(Tail(ls))

\* for line in lines: first heading or first short line
RECURSIVE ScanLines(_)
ScanLines(ls) ==
    IF ls = <<>> THEN NoTitle
    ELSE LET stripped == Strip(ls[1]) IN
         IF StartsWith(stripped, HeadingMark) THEN Found(Strip(Drop(stripped, 2)))
         ELSE IF stripped # <<>> /\ TLen(stripped) < TitleMaxLen THEN Found(stripped)
              ELSE ScanLines(Tail(ls))

TitleScan(content, fallback) ==
    LET lines == Split(content, "\n")
        first == Strip(lines[1])
        fm == IF first \in {Dashes, Pluses}
              THEN LET t == FrontmatterTitle(Tail(lines), first) IN
                   IF t # NoTitle THEN t
                   ELSE ScanBody(SubSeq(lines, BodyStart(lines, 1, first) + 1, Len(lines)))
              ELSE NoTitle
        rest == ScanLines(lines)
    IN  IF fm # NoTitle THEN fm[1]
        ELSE IF rest # NoTitle THEN rest[1]
        ELSE fallback

\* IngestResource._extract_title
extract_title(content, fallback) == TitleScan(content, fallback)

\* Reindex._extract_title ("same logic as IngestResource._extract_title")
reindex_extract_title(content, fallback) == TitleScan(content, fallback)

(***************************************************************************)
(* Tokenizer (JsonlIndexer._tokenize)                                      *)
(***************************************************************************)
AlnumChars ==
    {"a","b","c","d","e","f","g","h","i","j","k","l","m","n","o","p","q","r",
     "s","t","u","v","w","x","y","z","0","1","2","3","4","5","6","7","8","9"}

stops ==
    { Lit(<<"t","h","e">>), Lit(<<"a">>), Lit(<<"a","n">>), Lit(<<"i","s">>),
      Lit(<<"a","r","e">>), Lit(<<"w","a","s">>), Lit(<<"w","e","r","e">>),
      Lit(<<"i","n">>), Lit(<<"o","n">>), Lit(<<"a","t">>), Lit(<<"t","o">>),
      Lit(<<"f","o","r">>), Lit(<<"o","f">>), Lit(<<"a","n","d">>),
      Lit(<<"o","r">>), Lit(<<"i","t">>) }

\* re.findall(r"[a-z0-9]+", text): the maximal runs of letters and digits
RECURSIVE FindAll(_, _)
FindAll(t, cur) ==
    IF t = <<>> THEN (IF cur = <<>> THEN <<>> ELSE <<cur>>)
    ELSE IF t[1][1] \in AlnumChars THEN FindAll(Tail(t), cur \o <<t[1]>>)
         ELSE (IF cur = <<>> THEN <<>> ELSE <<cur>>) \o FindAll(Tail(t), <<>>)

KeepWord(w) == w \notin stops /\ TLen(w) > 1

tokenize(text) == SelectSeq(FindAll(Lower(text), <<>>), KeepWord)

(***************************************************************************)
(* Sample inputs: request sources, file contents, page texts, snippets     *)
(***************************************************************************)
UrlA == Lit(<<"h","t","t","p",":","/","/","a">>)
UrlB == Lit(<<"h","t","t","p",":","/","/","b">>)
UrlBad == Lit(<<"f","t","p",":","/","/","c">>)
PathN == Lit(<<"n",".","m","d">>)
PathM == Lit(<<"d","/","m",".","m","d">>)
DocHello == Lit(<<"-","-","-","\n","t","i","t","l","e",":"," ","H","e","l","l","o"," ","W","o","r","l","d","\n","-","-","-","\n","b","o","d","y"," ","t","e","x","t">>)
DocHeading == Lit(<<"#"," ","M","y"," ","H","e","a","d","i","n","g","\n","b","o","d","y">>)
DocBlank == Lit(<<" ","\n">>)
DocEmpty == Lit(<<>>)
DocLong == Cat(Lit(<<"z","z"," ","b","e","t","a"," ">>), Cat(Rep("x", 9995), Lit(<<" ","b","e","t","a">>)))
PageAlpha == Lit(<<"a","l","p","h","a"," ","b","e","t","a"," ","b","e","t","a">>)
PageBeta == Lit(<<"b","e","t","a">>)
SnipAlpha == Lit(<<"a","l","p","h","a">>)
SnipGamma == Lit(<<"g","a","m","m","a">>)

\* hashlib.sha256(s.encode()).hexdigest() of the sample strings, as
\* <<first 12 hex digits, remaining 52>>
Sha256Table ==
    (UrlA :> <<"54df484bb282", "e7e472b74675fab8f1b61a6c46a2988252b6d2bf35d9afa8f5c0">>) @@
    (UrlB :> <<"513ede8032c1", "eb2f706967d243253386cda6ee282eddb6d338c6ac763f5b7ae3">>) @@
    (UrlBad :> <<"d9be1fbf0662", "ce3d56a13696a133a243087a55bf9c15af6a8dce2841ea0b224e">>) @@
    (DocHello :> <<"f5df5c309c4b", "5dc58889c2064a7a8c16eee47cd6afd774e656079ad8df7a5ba3">>) @@
    (DocHeading :> <<"9bd6d3ca80c5", "5be6d526b7f48313362dcf98e3f606c7e15115d3ea640aad306e">>) @@
    (DocBlank :> <<"e16f15962018", "50fd4a63680b27f603cb64e67176159be3d8ed78a4403fdb1700">>) @@
    (DocEmpty :> <<"e3b0c44298fc", "1c149afbf4c8996fb92427ae41e4649b934ca495991b7852b855">>) @@
    (DocLong :> <<"970bddf1c6c5", "3800772f050a576acafbee95ae197cd3af36d5e231cca647070a">>) @@
    (PageAlpha :> <<"c65bf419c2b0", "cd31b9e901fe29d4f3eb7007dbce59b26206ac03fa71446c1bdf">>) @@
    (PageBeta :> <<"f44e64e75f39", "48e9f73f8dfa94721c4ce8cbb4f265c4790c702b2d41cfbf2753">>) @@
    (SnipAlpha :> <<"8ed3f6ad685b", "959ead7022518e1af76cd816f8e8ec7ccdda1ed4018e8f2223f8">>) @@
    (SnipGamma :> <<"be9d587defa1", "f0c09ef49eb17e206983a5f8f8289e4281860bd0ee5a19592c67">>)

\* sorted(os.listdir(...)): the ids the sample sources hash to, in the order of
\* Python's string comparison
SortedIds ==
    <<"513ede8032c1",
      "54df484bb282",
      "970bddf1c6c5",
      "9bd6d3ca80c5",
      "d9be1fbf0662",
      "e16f15962018",
      "e3b0c44298fc",
      "f5df5c309c4b">>

(***************************************************************************)
(* Value objects and entities (domain/value_objects.py, entities.py)       *)
(***************************************************************************)
sha256_hexdigest(s) == Sha256Table[s]

\* ResourceId.from_url: hexdigest()[:12]
from_url(url) == sha256_hexdigest(url)[1]

\* ResourceId.from_content: hexdigest()[:12]
from_content(content) == sha256_hexdigest(content)[1]

\* ContentHash.of: the whole digest
ContentHashOf(text) == sha256_hexdigest(text)

HttpPrefix == Lit(<<"h","t","t","p",":","/","/">>)
HttpsPrefix == Lit(<<"h","t","t","p","s",":","/","/">>)
FilePrefix == Lit(<<"f","i","l","e",":","/","/">>)

\* Url.__post_init__: the value is accepted
UrlValid(value) ==
    StartsWith(value, HttpPrefix) \/ StartsWith(value, HttpsPrefix) \/ StartsWith(value, FilePrefix)

\* A Timestamp is a UTC datetime, kept as the number of ticks since
\* 2024-01-01T00:00:00+00:00; a second has TicksPerSecond ticks, so that
\* datetimes with and without microseconds occur.
TicksPerSecond == 4

MicrosPerTick == 1000000 \div TicksPerSecond

DigitChars == <<"0", "1", "2", "3", "4", "5", "6", "7", "8", "9">>

DigitValues == [ch \in {DigitChars[d] : d \in 1..10} |->
                   CHOOSE d \in 0..9 : DigitChars[d + 1] = ch]

DigitValue(ch) == DigitValues[ch]

\* the decimal digit of n at the place of 10^k
Digit(n, place) == DigitChars[((n \div place) % 10) + 1]

\* "%02d" % n
TwoDigits(n) == Lit(<<Digit(n, 10), Digit(n, 1)>>)

\* "%06d" % n
SixDigits(n) ==
    Lit(<<Digit(n, 100000), Digit(n, 10000), Digit(n, 1000), Digit(n, 100),
          Digit(n, 10), Digit(n, 1)>>)

\* the characters of a text, one by one
RECURSIVE Chars(_)
Chars(text) ==
    IF text = <<>> THEN <<>>
    ELSE [i \in 1..text[1][2] |-> text[1][1]] \o Chars(Tail(text))

\* int(s[from:to]) of decimal digits
RECURSIVE IntOf(_, _, _)
IntOf(s, from, to) ==
    IF to <= from THEN 0
    ELSE IntOf(s, from, to - 1) * 10 + DigitValue(s[to])

DatePart == Lit(<<"2","0","2","4","-","0","1","-","0","1","T">>)
UtcOffset == Lit(<<"+","0","0",":","0","0">>)
Colon == Lit(<<":">>)
Dot == Lit(<<".">>)

\* HH:MM:SS of a datetime
ClockPart(ts) ==
    TwoDigits(ts \div (3600 * TicksPerSecond)) \o Colon
        \o TwoDigits((ts \div (60 * TicksPerSecond)) % 60) \o Colon
        \o TwoDigits((ts \div TicksPerSecond) % 60)

\* datetime.isoformat(timespec="seconds"): the microseconds are left out
IsoSeconds(ts) == Norm(DatePart \o ClockPart(ts) \o UtcOffset)

\* datetime.isoformat() of an aware UTC datetime,
\* YYYY-MM-DDTHH:MM:SS[.ffffff]+00:00, the fraction only if it is not zero
isoformat(ts) ==
    Norm(DatePart \o ClockPart(ts)
           \o (IF ts % TicksPerSecond = 0 THEN <<>>
               ELSE Dot \o SixDigits((ts % TicksPerSecond) * MicrosPerTick))
           \o UtcOffset)

\* the texts of the first datetimes, formatted once
IsoFormatted == [ts \in 0..8 |-> isoformat(ts)]

\* Timestamp.iso
Iso(ts) == IF ts \in DOMAIN IsoFormatted THEN IsoFormatted[ts] ELSE isoformat(ts)

\* Timestamp.from_iso: datetime.fromisoformat of such a text
FromIso(text) ==
    Eval(Chars(text), LAMBDA s :
        ((IntOf(s, 11, 13) * 60 + IntOf(s, 14, 16)) * 60 + IntOf(s, 17, 19)) * TicksPerSecond
        + (IF Len(s) > 19 /\ s[20] = "." THEN IntOf(s, 20, 26) ELSE 0) \div MicrosPerTick)

\* Resource(...): tags and snippet_count take their defaults unless given
Resource(id, title, url, captured_at, content_hash, tags, snippet_count) ==
    [id |-> id, title |-> title, url |-> url, captured_at |-> captured_at,
     content_hash |-> content_hash, tags |-> tags, snippet_count |-> snippet_count]

to_dict(r) ==
    [id |-> r.id, title |-> r.title, url |-> r.url, captured_at |-> Iso(r.captured_at),
     content_hash |-> r.content_hash, tags |-> r.tags, snippet_count |-> r.snippet_count]

from_dict(d) ==
    Resource(d.id, d.title, d.url, FromIso(d.captured_at), d.content_hash,
             d.tags, d.snippet_count)

(***************************************************************************)
(* The storage directory (infrastructure/filesystem_store.py).             *)
(* A disk is [files, ledger]: files maps each existing resource directory  *)
(* to its files, ledger is library.jsonl, one dict per line.  A file is    *)
(* Absent, Corrupt (bytes json.load rejects) or File(v).                   *)
(***************************************************************************)
Absent == [k |-> "absent"]
Corrupt == [k |-> "corrupt"]
File(v) == [k |-> "file", v |-> v]

\* a collaborator's optional result
None == [k |-> "none"]
Some(v) == [k |-> "some", v |-> v]

EmptyDir == [meta |-> Absent, content |-> Absent, snippets |-> Absent, raw |-> Absent]

DirOf(disk, rid) == IF rid \in DOMAIN disk.files THEN disk.files[rid] ELSE EmptyDir

\* a store that writes the line of a saved resource twice
append_to_library_twice(ledger, resource) ==
    Append(Append(ledger, to_dict(resource)), to_dict(resource))

\* a ledger that grows at the front
prepend_to_library(ledger, resource) == <<to_dict(resource)>> \o ledger

\* FilesystemStore._append_to_library
append_to_library(ledger, resource) == Append(ledger, to_dict(resource))

\* a store that writes the empty list of snippets at every save
snippets_reset(old) == File(<<>>)

\* snippets.json after save_resource: the empty list unless the file exists
\* (lines 54-58)
snippets_placeholder(old) == IF old.k = "absent" THEN File(<<>>) ELSE old

\* FilesystemStore.save_resource: the disk afterwards
save_resource(disk, resource, content_md, raw_html) ==
    LET old == DirOf(disk, resource.id)
        dir == [meta |-> File(to_dict(resource)),
                content |-> File(content_md),
                snippets |-> snippets_placeholder(old.snippets),
                raw |-> IF raw_html.k = "some" /\ raw_html.v # <<>>
                        THEN File(raw_html.v) ELSE old.raw]
    IN  [files |-> [r \in DOMAIN disk.files \cup {resource.id} |->
                       IF r = resource.id THEN dir ELSE disk.files[r]],
         ledger |-> append_to_library(disk.ledger, resource)]

\* FilesystemStore.save_snippets: the disk afterwards.  The dicts of a snippet
\* list hold strings and numbers, which json.dump and json.load give back as
\* they were.
save_snippets(disk, rid, snippets) ==
    [disk EXCEPT !.files = [r \in DOMAIN disk.files \cup {rid} |->
                               IF r = rid
                               THEN [DirOf(disk, rid) EXCEPT !.snippets = File(snippets)]
                               ELSE disk.files[r]]]

\* FilesystemStore.load_snippets: [] when there is no file
load_snippets(disk, rid) ==
    IF DirOf(disk, rid).snippets.k = "file" THEN DirOf(disk, rid).snippets.v ELSE <<>>

\* a store that never finds the metadata file
resource_exists_never(disk, rid) == FALSE

\* FilesystemStore.resource_exists: the metadata file is there
resource_exists(disk, rid) == DirOf(disk, rid).meta.k # "absent"

\* FilesystemStore.load_resource raises (json.load fails)
load_resource_raises(disk, rid) == DirOf(disk, rid).meta.k = "corrupt"

\* FilesystemStore.load_resource: None, or the resource read back
load_resource(disk, rid) ==
    IF DirOf(disk, rid).meta.k = "file" THEN Some(from_dict(DirOf(disk, rid).meta.v)) ELSE None

\* FilesystemStore.load_content
load_content(disk, rid) ==
    IF DirOf(disk, rid).content.k = "file" THEN Some(DirOf(disk, rid).content.v) ELSE None

(***************************************************************************)
(* The keyword indexer (infrastructure/jsonl_indexer.py).                  *)
(* An indexer is [resources, index].  Python dicts keep insertion order,   *)
(* which list_all and most_common expose: resources and each term's        *)
(* Counter are sequences of <<key, value>> in insertion order; index is a  *)
(* function from the terms seen to their Counters.                         *)
(***************************************************************************)
EmptyIndexer == [resources |-> <<>>, index |-> <<>>]

HasKey(d, key) == \E i \in 1..Len(d) : d[i][1] = key

\* d[key], for a key of d
Get(d, key) == d[CHOOSE i \in 1..Len(d) : d[i][1] = key][2]

\* d[key] = value
Put(d, key, value) ==
    IF HasKey(d, key)
    THEN [i \in 1..Len(d) |-> IF d[i][1] = key THEN <<key, value>> ELSE d[i]]
    ELSE Append(d, <<key, value>>)

\* d.pop(key, None)
Pop(d, key) == SelectSeq(d, LAMBDA e : e[1] # key)

\* a counter that is set where it should be added to
CounterSet(c, key, n) == Put(c, key, n)

\* counter[key] += n
CounterAdd(c, key, n) == Put(c, key, (IF HasKey(c, key) THEN Get(c, key) ELSE 0) + n)

\* for term in terms: self._index[term][rid] += 1
RECURSIVE AddTerms(_, _, _)
AddTerms(index, terms, rid) ==
    IF terms = <<>> THEN index
    ELSE LET term == Head(terms)
             cur == IF term \in DOMAIN index THEN index[term] ELSE <<>>
         IN  Eval([t \in DOMAIN index \cup {term} |->
                     IF t = term THEN CounterAdd(cur, rid, 1) ELSE index[t]],
                  LAMBDA added : AddTerms(added, Tail(terms), rid))

\* f"{resource.title} {content}"
TitleAndContent(title, content) == Cat(Cat(title, Lit(<<" ">>)), content)

\* JsonlIndexer.index_resource: the indexer afterwards
index_resource(ix, resource, content) ==
    Eval(tokenize(TitleAndContent(resource.title, content)), LAMBDA terms :
         [resources |-> Put(ix.resources, resource.id, resource),
          index |-> AddTerms(ix.index, terms, resource.id)])

\* scores[rid] += count for every entry of one term's Counter
RECURSIVE AddCounts(_, _)
AddCounts(scores, entries) ==
    IF entries = <<>> THEN scores
    ELSE Eval(CounterAdd(scores, entries[1][1], entries[1][2]),
              LAMBDA added : AddCounts(added, Tail(entries)))

\* the scores Counter search_local builds over the query terms
RECURSIVE Scores(_, _, _)
Scores(index, terms, scores) ==
    IF terms = <<>> THEN scores
    ELSE Eval(IF Head(terms) \in DOMAIN index
              THEN AddCounts(scores, index[Head(terms)]) ELSE scores,
              LAMBDA added : Scores(index, Tail(terms), added))

\* a ranking that keeps the insertion order
Unsorted(items) == items

\* sorted(items, key=count, reverse=True): stable, so equal counts keep their order
RECURSIVE SortedDesc(_)
SortedDesc(items) ==
    IF items = <<>> THEN <<>>
    ELSE Eval(SortedDesc(SubSeq(items, 1, Len(items) - 1)), LAMBDA rest :
              LET e == items[Len(items)]
                  k == Cardinality({i \in 1..Len(rest) : rest[i][2] >= e[2]})
              IN  SubSeq(rest, 1, k) \o <<e>> \o SubSeq(rest, k + 1, Len(rest)))

\* Counter.most_common(n)
most_common(c, n) == SubSeq(SortedDesc(c), 1, IF n < Len(c) THEN n ELSE Len(c))

\* JsonlIndexer.search_local
search_local(ix, query, top_k) ==
    Eval(tokenize(query), LAMBDA terms :
         Eval(Scores(ix.index, terms, <<>>), LAMBDA scores :
              Eval(most_common(scores, top_k), LAMBDA top :
                   [i \in 1..Len(top) |-> top[i][1]])))

\* JsonlIndexer.list_all
list_all(ix) == [i \in 1..Len(ix.resources) |-> ix.resources[i][2]]

\* a remove that forgets the record and keeps the counts
remove_record_only(ix, rid) == [resources |-> Pop(ix.resources, rid), index |-> ix.index]

\* JsonlIndexer.remove
remove(ix, rid) ==
    [resources |-> Pop(ix.resources, rid),
     index |-> [t \in DOMAIN ix.index |-> Pop(ix.index[t], rid)]]

LoadContentCap == 10000

\* a loader that takes every ledger line as new
never_seen(rid, seen_ids) == FALSE

\* if rid in seen_ids: continue (lines 82-83)
already_seen(rid, seen_ids) == rid \in seen_ids

\* JsonlIndexer._load: the index a starting process builds from the ledger and the
\* stored content (lines is what is left of the ledger, seen the ids already loaded)
RECURSIVE LoadLines(_, _, _, _)
LoadLines(disk, lines, seen, ix) ==
    IF lines = <<>> THEN ix
    ELSE LET resource == from_dict(Head(lines))
             rid == resource.id
             stored == DirOf(disk, rid).content
             content == IF stored.k = "file" THEN Take(stored.v, LoadContentCap) ELSE <<>>
         IN  IF already_seen(rid, seen) THEN LoadLines(disk, Tail(lines), seen, ix)
             ELSE Eval(index_resource(ix, resource, content), LAMBDA added :
                       LoadLines(disk, Tail(lines), seen \cup {rid}, added))

load(disk) == LoadLines(disk, disk.ledger, {}, EmptyIndexer)

(***************************************************************************)
(* IngestResource (application/use_cases/ingest_resource.py)               *)
(***************************************************************************)
Cwd == Lit(<<"/", "w">>)

\* os.path.abspath of a path given relative to the working directory
abspath(path) ==
    IF StartsWith(path, Lit(<<"/">>)) THEN path ELSE Cat(Cat(Cwd, Lit(<<"/">>)), path)

\* os.path.basename: what follows the last "/"
basename(path) == LET parts == Split(path, "/") IN parts[Len(parts)]

\* a check that lets whitespace pass as content
BlankOnlyIfEmpty(s) == s = <<>>

\* not s.strip()
Blank(s) == Strip(s) = <<>>

\* text or ""
OrEmpty(opt) == IF opt.k = "some" THEN opt.v ELSE <<>>

\* HtmlSnapshotter.capture: (None, None) when the request fails, and for a plain-text
\* response the stripped text, or None when nothing is left, with the text received
NoPage == [text |-> None, raw |-> None]
Page(raw_text) ==
    [text |-> IF Strip(raw_text) = <<>> THEN None ELSE Some(Strip(raw_text)),
     raw |-> Some(raw_text)]

\* a request: the source named, the local file there and what capture would return
Request(source, file, page) == [source |-> source, file |-> file, page |-> page]

\* what the caller sees of an ingest: the request as far as it was read (the file
\* always, the page only when capture was called), the exception or the response
IngestResp(req, exc, captured, already_existed, resource) ==
    [op |-> "ingest", source |-> req.source, file |-> req.file,
     page |-> IF captured THEN req.page ELSE NoPage,
     raised |-> exc, captured |-> captured,
     already_existed |-> already_existed, resource |-> resource]

IngestRaised(disk, ix, clock, req, exc, captured) ==
    [disk |-> disk, ix |-> ix, clock |-> clock,
     resp |-> IngestResp(req, exc, captured, FALSE, None)]

\* an early return that appends the stored resource to the ledger once more
IngestExistingAppends(disk, ix, clock, req, existing) ==
    [disk |-> [disk EXCEPT !.ledger = Append(@, to_dict(existing.v))],
     ix |-> ix, clock |-> clock,
     resp |-> IngestResp(req, "none", FALSE, TRUE, existing)]

\* lines 47-51 and 62-66: the stored resource is returned as it is
IngestExisting(disk, ix, clock, req, existing) ==
    [disk |-> disk, ix |-> ix, clock |-> clock,
     resp |-> IngestResp(req, "none", FALSE, TRUE, existing)]

\* lines 72-91: the empty-content check, then store and index
IngestStore(disk, ix, clock, req, rid, content_md, raw_html, url, title, captured) ==
    IF Blank(content_md)
    THEN IngestRaised(disk, ix, clock, req, "ValueError", captured)
    ELSE Eval(Resource(rid, title, url, clock, ContentHashOf(content_md), <<>>, 0),
              LAMBDA resource :
             [disk |-> save_resource(disk, resource, content_md, raw_html),
              ix |-> index_resource(ix, resource, content_md),
              clock |-> clock + 1,
              resp |-> IngestResp(req, "none", captured, FALSE, Some(resource))])

\* the title of a newly ingested local file (line 70)
local_title(source, content_md) == basename(source)

\* source.startswith(("http://", "https://"))
IsWebSource(source) == StartsWith(source, HttpPrefix) \/ StartsWith(source, HttpsPrefix)

\* IngestResource.execute.  file is the local file at source (Absent or File(text)),
\* page what the snapshotter's capture(source) returns; clock is the next clock reading.
IngestExecute(disk, ix, clock, source, file, page) ==
    LET req == Request(source, file, page) IN
    IF IsWebSource(source)
    THEN LET rid == from_url(source) IN
         IF resource_exists(disk, rid) /\ load_resource_raises(disk, rid)
         THEN IngestRaised(disk, ix, clock, req, "JSONDecodeError", FALSE)
         ELSE IF resource_exists(disk, rid) /\ load_resource(disk, rid).k = "some"
         THEN IngestExisting(disk, ix, clock, req, load_resource(disk, rid))
         ELSE LET content_md == OrEmpty(page.text) IN
              IngestStore(disk, ix, clock, req, rid, content_md, page.raw, source,
                          extract_title(content_md, source), TRUE)
    ELSE IF file.k = "absent"
         THEN IngestRaised(disk, ix, clock, req, "FileNotFoundError", FALSE)
         ELSE LET content_md == file.v
                  rid == from_content(content_md)
              IN  IF resource_exists(disk, rid) /\ load_resource_raises(disk, rid)
                  THEN IngestRaised(disk, ix, clock, req, "JSONDecodeError", FALSE)
                  ELSE IF resource_exists(disk, rid) /\ load_resource(disk, rid).k = "some"
                  THEN IngestExisting(disk, ix, clock, req, load_resource(disk, rid))
                  ELSE IngestStore(disk, ix, clock, req, rid, content_md, None,
                                   Cat(FilePrefix, abspath(source)),
                                   local_title(source, content_md), FALSE)

(***************************************************************************)
(* RunSearch (application/use_cases/run_search.py)                         *)
(***************************************************************************)
SlugMaxLen == 40

\* re.sub(r"[^a-z0-9]+", "_", s): every run of other characters becomes one "_"
Underscored(s) ==
    LET marked == Norm([i \in 1..Len(s) |->
                          IF s[i][1] \in AlnumChars THEN s[i] ELSE <<"_", 1>>])
    IN  [i \in 1..Len(marked) |-> IF marked[i][1] = "_" THEN <<"_", 1>> ELSE marked[i]]

slug(query) == StripChars(Take(Underscored(Lower(query)), SlugMaxLen), {"_"})

SearchResult(title, url, snippet) == [title |-> title, url |-> url, snippet |-> snippet]

\* a loop that forgets to count what it skips
not_counted(acc) == acc

\* skipped += 1 (lines 81, 89, 110)
count_skipped(acc) == [acc EXCEPT !.skipped = @ + 1]

\* the loop over the provider's results (lines 70-110); acc carries the disk, the
\* indexer, session.resource_ids, resources and skipped
RECURSIVE SearchLoop(_, _, _, _)
SearchLoop(results, web, ts, acc) ==
    IF results = <<>> THEN acc
    ELSE LET sr == Head(results)
             rid == from_url(sr.url)
             page == web[sr.url]
             content_md == IF OrEmpty(page.text) # <<>> THEN OrEmpty(page.text) ELSE sr.snippet
             resource == Resource(rid, sr.title, sr.url, ts, ContentHashOf(content_md), <<>>, 0)
             next ==
               IF resource_exists(acc.disk, rid)
               THEN IF load_resource_raises(acc.disk, rid)
                    THEN \* load_resource raises after the id was recorded
                         count_skipped([acc EXCEPT !.resource_ids = Append(@, rid)])
                    ELSE count_skipped(
                             [acc EXCEPT !.resource_ids = Append(@, rid),
                                         !.resources = Append(@, load_resource(acc.disk, rid).v)])
               ELSE IF Blank(content_md)
               THEN count_skipped([acc EXCEPT !.captured = Append(@, sr.url)])
               ELSE IF ~UrlValid(sr.url)
               THEN count_skipped([acc EXCEPT !.captured = Append(@, sr.url)])
               ELSE [acc EXCEPT !.disk = save_resource(acc.disk, resource, content_md, page.raw),
                                !.ix = index_resource(acc.ix, resource, content_md),
                                !.resource_ids = Append(@, rid),
                                !.resources = Append(@, resource),
                                !.stored = Append(@, rid),
                                !.captured = Append(@, sr.url)]
         IN  Eval(next, LAMBDA acc2 : SearchLoop(Tail(results), web, ts, acc2))

\* RunSearch.execute.  results is what the search provider returns, web what
\* capture returns for each URL.
RunSearchExecute(disk, ix, clock, sessions, query, results, web) ==
    Eval(SearchLoop(results, web, clock,
                    [disk |-> disk, ix |-> ix, resource_ids |-> <<>>,
                     resources |-> <<>>, skipped |-> 0, stored |-> <<>>,
                     captured |-> <<>>]), LAMBDA done :
    LET ts == clock
        session_id == [stamp |-> ts, slug |-> slug(query)]
        data == [session |-> [session_id |-> session_id, created_at |-> Iso(ts),
                              queries |-> <<query>>, resource_ids |-> done.resource_ids],
                 queries |-> <<query>>,
                 result_count |-> Len(done.resources),
                 skipped |-> done.skipped]
    IN  [disk |-> done.disk, ix |-> done.ix, clock |-> clock + 1,
         sessions |-> [sid \in DOMAIN sessions \cup {session_id} |->
                          IF sid = session_id THEN data ELSE sessions[sid]],
         resp |-> [op |-> "search", query |-> query, results |-> results,
                   session_id |-> session_id, resource_ids |-> done.resource_ids,
                   resources |-> done.resources, skipped |-> done.skipped,
                   stored |-> done.stored, captured |-> done.captured]])

(***************************************************************************)
(* Reindex (application/use_cases/reindex.py)                              *)
(***************************************************************************)
ReindexContentCap == 10000

\* sorted(os.listdir(resources_dir))
ListDirSorted(files) == SelectSeq(SortedIds, LAMBDA rid : rid \in DOMAIN files)

\* a walk that forgets the error
drop_error(errors, rid_dir, exc) == errors

\* result.errors.append(f"{rid_dir}: {exc}") (line 77)
record_error(errors, rid_dir, exc) == Append(errors, [dir |-> rid_dir, exc |-> exc])

\* a heuristic that never settles: every run finds another title
retitled(content, resource) == Cat(resource.title, Lit(<<"!">>))

\* the title reindex settles on for a loaded resource (line 57)
new_title(content, resource) == reindex_extract_title(content, resource.title)

\* the walk over the resource directories (lines 39-78); acc carries the files,
\* result.total, result.titles_fixed, result.errors and resources_with_content
RECURSIVE ReindexWalk(_, _)
ReindexWalk(dirs, acc) ==
    IF dirs = <<>> THEN acc
    ELSE LET rid_dir == Head(dirs)
             dir == acc.files[rid_dir]
             resource == from_dict(dir.meta.v)
             content == IF dir.content.k = "file" THEN dir.content.v ELSE <<>>
             title == new_title(content, resource)
             fixed == Resource(resource.id, title, resource.url, resource.captured_at,
                               resource.content_hash, resource.tags, 0)
             next ==
               IF dir.meta.k = "absent" THEN acc
               ELSE IF dir.meta.k = "corrupt"
               THEN [acc EXCEPT !.total = @ + 1,
                                !.errors = record_error(@, rid_dir, "JSONDecodeError")]
               ELSE IF title # resource.title
               THEN [acc EXCEPT !.total = @ + 1,
                                !.files[rid_dir].meta = File(to_dict(fixed)),
                                !.titles_fixed = @ + 1,
                                !.loaded = Append(@, <<fixed, content>>)]
               ELSE [acc EXCEPT !.total = @ + 1,
                                !.loaded = Append(@, <<resource, content>>)]
         IN  Eval(next, LAMBDA acc2 : ReindexWalk(Tail(dirs), acc2))

\* a rebuild that writes every line twice
rebuild_ledger_doubled(loaded) ==
    [i \in 1..(2 * Len(loaded)) |-> to_dict(loaded[(i + 1) \div 2][1])]

\* f.write(json.dumps(resource.to_dict()) + "\n") for each loaded resource (lines 80-84)
rebuild_ledger(loaded) == [i \in 1..Len(loaded) |-> to_dict(loaded[i][1])]

\* the indexer reset and refilled (lines 88-91)
RECURSIVE rebuild_index(_, _)
rebuild_index(loaded, ix) ==
    IF loaded = <<>> THEN ix
    ELSE Eval(index_resource(ix, loaded[1][1], Take(loaded[1][2], ReindexContentCap)),
              LAMBDA added : rebuild_index(Tail(loaded), added))

\* Reindex.execute (the resources directory exists: the container calls ensure_dirs)
ReindexExecute(disk, ix) ==
    Eval(ReindexWalk(ListDirSorted(disk.files),
                     [files |-> disk.files, total |-> 0, titles_fixed |-> 0,
                      errors |-> <<>>, loaded |-> <<>>]), LAMBDA done :
         [disk |-> [files |-> done.files, ledger |-> rebuild_ledger(done.loaded)],
          ix |-> rebuild_index(done.loaded, EmptyIndexer),
          resp |-> [op |-> "reindex", total |-> done.total,
                    titles_fixed |-> done.titles_fixed, errors |-> done.errors,
                    loaded |-> [i \in 1..Len(done.loaded) |-> done.loaded[i][1].id]]])

(***************************************************************************)
(* QueryLibrary (application/use_cases/query_library.py)                   *)
(***************************************************************************)
SnippetLen == 1500
ExcerptLen == 200

\* the first sentence of the fixed message (lines 77-78)
NoRelevantText == "No relevant resources found in the local library."

\* a citation that names the source and leaves its title out
CitationUntitled(rid, resource, snippet) ==
    [resource_id |-> rid, resource_title |-> <<>>, url |-> resource.url,
     captured_at |-> resource.captured_at, excerpt |-> Take(snippet, ExcerptLen)]

\* Citation(...) (lines 103-110)
Citation(rid, resource, snippet) ==
    [resource_id |-> rid, resource_title |-> resource.title, url |-> resource.url,
     captured_at |-> resource.captured_at, excerpt |-> Take(snippet, ExcerptLen)]

\* the loop gathering sources and citations (lines 89-112); stops when
\* load_resource raises
RECURSIVE Gather(_, _, _)
Gather(disk, ids, acc) ==
    IF ids = <<>> \/ acc.raised # "none" THEN acc
    ELSE LET rid == Head(ids)
             resource == load_resource(disk, rid)
             snippet == Take(OrEmpty(load_content(disk, rid)), SnippetLen)
             next ==
               IF load_resource_raises(disk, rid) THEN [acc EXCEPT !.raised = "JSONDecodeError"]
               ELSE IF resource.k = "none" THEN acc
               ELSE [acc EXCEPT !.sources = Append(@, resource.v),
                                !.citations = Append(@, Citation(rid, resource.v, snippet))]
         IN  Eval(next, LAMBDA acc2 : Gather(disk, Tail(ids), acc2))

\* a check that never takes the early return
never_no_results(resource_ids) == FALSE

\* if not resource_ids (line 74)
no_results(resource_ids) == resource_ids = <<>>

\* the part of QueryLibrary.execute after the optional live search (lines 71-133)
Answer(disk, ix, question, top_k, live) ==
    Eval(search_local(ix, question, top_k), LAMBDA resource_ids :
    Eval(Gather(disk, resource_ids, [sources |-> <<>>, citations |-> <<>>, raised |-> "none"]),
         LAMBDA got :
        IF no_results(resource_ids)
        THEN [op |-> "query", question |-> question, top_k |-> top_k, live |-> live,
              raised |-> "none", ids |-> resource_ids, text |-> NoRelevantText,
              citations |-> <<>>, sources |-> <<>>, llm_called |-> FALSE]
        ELSE IF got.raised # "none"
        THEN [op |-> "query", question |-> question, top_k |-> top_k, live |-> live,
              raised |-> got.raised, ids |-> resource_ids, text |-> "",
              citations |-> <<>>, sources |-> <<>>, llm_called |-> FALSE]
        ELSE [op |-> "query", question |-> question, top_k |-> top_k, live |-> live,
              raised |-> "none", ids |-> resource_ids, text |-> "answer_text",
              citations |-> got.citations, sources |-> got.sources, llm_called |-> TRUE]))

\* QueryLibrary.execute with live = False
QueryExecute(disk, ix, question, top_k) == Answer(disk, ix, question, top_k, FALSE)

\* QueryLibrary.execute with live = True: RunSearch first, then the same answer path
QueryLiveExecute(disk, ix, clock, sessions, question, top_k, results, web) ==
    Eval(RunSearchExecute(disk, ix, clock, sessions, question, results, web),
         LAMBDA searched :
         [searched EXCEPT !.resp = Answer(searched.disk, searched.ix, question, top_k, TRUE)])


(***************************************************************************)
(* SummarizeResource (application/use_cases/summarize_resource.py)          *)
(***************************************************************************)
SummaryMaxChars == 12000

TruncatedMark ==
    Cat(Cat(Rep("\n", 2), Lit(<<"[", ".", ".", ".", " ">>)),
        Cat(Lit(<<"c","o","n","t","e","n","t"," ","t","r","u","n","c","a","t","e","d">>),
            Lit(<<" ", ".", ".", ".", "]">>)))

\* the document as it goes into the prompt (lines 52-56)
truncated(content) ==
    IF TLen(content) > SummaryMaxChars
    THEN Cat(Take(content, SummaryMaxChars), TruncatedMark)
    ELSE content

\* SummarizeResource.execute; raw_summary is what the language model answers
SummarizeExecute(disk, rid, raw_summary) ==
    LET resource == load_resource(disk, rid)
        content == load_content(disk, rid)
    IN  IF load_resource_raises(disk, rid)
        THEN [op |-> "summarize", rid |-> rid, raised |-> "JSONDecodeError"]
        ELSE IF resource.k = "none"
        THEN [op |-> "summarize", rid |-> rid, raised |-> "ValueError"]
        ELSE IF OrEmpty(content) = <<>>
        THEN [op |-> "summarize", rid |-> rid, raised |-> "ValueError"]
        ELSE [op |-> "summarize", rid |-> rid, raised |-> "none",
              document |-> truncated(content.v),
              text |-> raw_summary,
              citations |-> << Citation(rid, resource.v, raw_summary) >>,
              resource |-> resource.v]

(***************************************************************************)
(* ReviewArtifact (application/use_cases/review_artifact.py,               *)
(* domain/review_entities.py).  A JSON value carries its type; an object   *)
(* is a function from its keys.  The text of a model response is           *)
(* [fenced, around, body]: the body, text around it or not, the whole in   *)
(* a Markdown code fence or not; a body is a JSON value, text without      *)
(* braces (JText) or JSON that breaks off (JBroken).                       *)
(***************************************************************************)
JNull == [t |-> "null"]
JBool(b) == [t |-> "bool", b |-> b]
JNum(n) == [t |-> "number", n |-> n]
JStr(s) == [t |-> "string", s |-> s]
\* a string of decimal digits, kept by its characters
JDigits(chars) == [t |-> "string", chars |-> chars]
JList(items) == [t |-> "list", items |-> items]
JObject(fields) == [t |-> "object", fields |-> fields]
JText == [t |-> "text"]
JBroken == [t |-> "broken"]

\* dict.get(key, default)
dict_get(d, key, default) == IF key \in DOMAIN d THEN d[key] ELSE default

\* Severity, in the order of Severity.__lt__ (review_entities.py:20)
SeverityOrder == <<"critical", "major", "minor", "suggestion">>

SeverityIndex(s) == CHOOSE i \in DOMAIN SeverityOrder : SeverityOrder[i] = s

\* Severity.__lt__
severity_lt(a, b) == SeverityIndex(a) < SeverityIndex(b)

\* Severity(value) does not raise ValueError
IsSeverity(value) ==
    /\ value.t = "string"
    /\ "s" \in DOMAIN value
    /\ \E i \in DOMAIN SeverityOrder : SeverityOrder[i] = value.s

Value(v) == [raised |-> "none", v |-> v]
Raises(exc) == [raised |-> exc]

\* ReviewIssue.from_dict(item)
issue_from_dict(item) ==
    IF item.t # "object" THEN Raises("TypeError")
    ELSE IF "severity" \notin DOMAIN item.fields THEN Raises("KeyError")
    ELSE IF ~IsSeverity(item.fields.severity) THEN Raises("ValueError")
    ELSE IF "title" \notin DOMAIN item.fields THEN Raises("KeyError")
    ELSE Value([severity |-> item.fields.severity.s,
                title |-> item.fields.title,
                location |-> dict_get(item.fields, "location", JStr("")),
                evidence |-> dict_get(item.fields, "evidence", JStr("")),
                fix |-> dict_get(item.fields, "fix", JStr(""))])

\* the loop over data["issues"] (lines 319-324): KeyError and ValueError drop
\* the item, any other exception leaves the loop
RECURSIVE ParseIssues(_, _)
ParseIssues(items, acc) ==
    IF items = <<>> \/ acc.raised # "none" THEN acc
    ELSE Eval(issue_from_dict(Head(items)), LAMBDA got :
             ParseIssues(Tail(items),
                 IF got.raised = "none" THEN Value(Append(acc.v, got.v))
                 ELSE IF got.raised \in {"KeyError", "ValueError"} THEN acc
                 ELSE Raises(got.raised)))

\* a report that lists the issues as the model returned them
as_returned(issues) == issues

\* the place of an issue in a sorted list: behind every issue that is not
\* less severe than it
RECURSIVE InsertIssue(_, _)
InsertIssue(sorted, issue) ==
    IF sorted = <<>> THEN <<issue>>
    ELSE IF severity_lt(issue.severity, Head(sorted).severity)
         THEN <<issue>> \o sorted
         ELSE <<Head(sorted)>> \o InsertIssue(Tail(sorted), issue)

\* issues.sort(key=lambda i: i.severity) (line 327); list.sort is stable
RECURSIVE sort_by_severity(_)
sort_by_severity(issues) ==
    IF issues = <<>> THEN <<>>
    ELSE InsertIssue(sort_by_severity(SubSeq(issues, 1, Len(issues) - 1)),
                     issues[Len(issues)])

\* int(value)
int(value) ==
    IF value.t = "number" THEN Value(value.n)
    ELSE IF value.t = "bool" THEN Value(IF value.b THEN 1 ELSE 0)
    ELSE IF value.t = "string"
    THEN IF "chars" \in DOMAIN value /\ value.chars # <<>>
         THEN Value(IntOf(value.chars, 0, Len(value.chars)))
         ELSE Raises("ValueError")
    ELSE Raises("TypeError")

\* the response without its code fence (lines 275-282)
strip_fences(raw) == [around |-> raw.around, body |-> raw.body]

\* json.loads(cleaned), and json.loads of the {...} the regular expression
\* finds when that fails (lines 284-295): the value, or None
load_data(cleaned) ==
    IF ~cleaned.around /\ cleaned.body.t \notin {"text", "broken"}
    THEN IF cleaned.body = JNull THEN None ELSE Some(cleaned.body)
    ELSE IF cleaned.body.t = "object" THEN Some(cleaned.body)
    ELSE None

ParseFailureTitle == "LLM response parse failure"

\* the synthetic report (lines 297-314)
FallbackReport(raw, artifact) ==
    [overall_score |-> 0, passed |-> JBool(FALSE), summary |-> "Failed to parse",
     issues |-> <<[severity |-> "critical", title |-> JStr(ParseFailureTitle),
                   location |-> JStr("N/A"), evidence |-> raw,
                   fix |-> JStr("Retry the review or adjust the prompt.")]>>,
     next_steps |-> JList(<<JStr("Retry the review")>>), artifact |-> artifact,
     model |-> "", reviewed_at |-> <<>>]

\* rubric.get("pass_threshold", 60) (line 316)
DefaultPassThreshold == 60

pass_threshold(rubric) == dict_get(rubric, "pass_threshold", DefaultPassThreshold)

\* data.get("pass", score >= pass_threshold) (line 331)
verdict(data, score, rubric) ==
    dict_get(data, "pass", JBool(score >= pass_threshold(rubric)))

\* ReviewArtifact._parse_response
parse_response(raw, rubric, artifact) ==
    Eval(load_data(strip_fences(raw)), LAMBDA data :
        IF data.k = "none" THEN Value(FallbackReport(raw, artifact))
        ELSE IF data.v.t # "object" THEN Raises("AttributeError")
        ELSE Eval(int(dict_get(data.v.fields, "overall_score", JNum(0))), LAMBDA score :
             IF score.raised # "none" THEN score
             ELSE Eval(dict_get(data.v.fields, "issues", JList(<<>>)), LAMBDA items :
                  IF items.t # "list" THEN Raises("TypeError")
                  ELSE Eval(ParseIssues(items.items, Value(<<>>)), LAMBDA issues :
                       IF issues.raised # "none" THEN issues
                       ELSE Value(
                          [overall_score |-> score.v,
                           passed |-> verdict(data.v.fields, score.v, rubric),
                           summary |-> dict_get(data.v.fields, "summary", JStr("")),
                           issues |-> sort_by_severity(issues.v),
                           next_steps |-> dict_get(data.v.fields, "next_steps", JList(<<>>)),
                           artifact |-> artifact,
                           model |-> "", reviewed_at |-> <<>>])))))

\* ReviewReport.to_dict
report_to_dict(report) ==
    [overall_score |-> report.overall_score, pass |-> report.passed,
     summary |-> report.summary, issues |-> report.issues,
     next_steps |-> report.next_steps, artifact |-> report.artifact,
     model |-> report.model, reviewed_at |-> report.reviewed_at]

\* ReviewArtifact.execute from the model's answer on (lines 154-188): parse,
\* stamp, store under reviews/<timestamp>__<slug>, return
ReviewExecute(reviews, clock, raw, rubric, artifact) ==
    Eval(parse_response(raw, rubric, artifact), LAMBDA parsed :
        IF parsed.raised # "none"
        THEN [reviews |-> reviews, clock |-> clock,
              resp |-> [op |-> "review", raw |-> raw, rubric |-> rubric,
                        raised |-> parsed.raised]]
        ELSE LET report == [parsed.v EXCEPT !.reviewed_at = Iso(clock),
                                            !.model = "gemini-2.0-flash"]
                 review_dir == [stamp |-> clock, slug |-> artifact.filename]
             IN  [reviews |-> [d \in DOMAIN reviews \cup {review_dir} |->
                                  IF d = review_dir
                                  THEN [report |-> report_to_dict(report), rubric |-> rubric]
                                  ELSE reviews[d]],
                  clock |-> clock + 1,
                  resp |-> [op |-> "review", raw |-> raw, rubric |-> rubric,
                            raised |-> "none", report |-> report,
                            review_dir |-> review_dir]])

(***************************************************************************)
(* Inputs of the operations                                                *)
(***************************************************************************)
MaxClock == 3
MaxTopK == 2
MaxCalls == 3

Urls == {UrlA, UrlB}

\* the local files a request names: <<path, the file there>>
Docs == { <<PathN, File(DocHello)>>, <<PathM, File(DocLong)>> }
LocalFiles ==
    Docs \cup
    { <<PathM, File(DocHello)>>, <<PathN, File(DocBlank)>>, <<PathM, File(DocBlank)>>,
      <<PathN, File(DocEmpty)>>, <<PathN, Absent>> }

\* what capture returns for each URL at the time of the call
WebDown == (UrlA :> NoPage) @@ (UrlB :> NoPage) @@ (UrlBad :> NoPage)
WebPages == (UrlA :> Page(PageAlpha)) @@ (UrlB :> Page(PageBeta)) @@ (UrlBad :> NoPage)
WebDocs == (UrlA :> Page(DocHello)) @@ (UrlB :> Page(DocBlank)) @@ (UrlBad :> NoPage)
Webs == {WebDown, WebPages, WebDocs}

\* what the search provider returns
ResultsAB ==
    << SearchResult(Lit(<<"A","l","p","h","a">>), UrlA, SnipAlpha),
       SearchResult(Lit(<<"B","e","t","a">>), UrlB, <<>>) >>
ResultsBad ==
    << SearchResult(Lit(<<"B","a","d">>), UrlBad, SnipGamma),
       SearchResult(Lit(<<"B","e","t","a">>), UrlB, <<>>) >>
\* a search: <<what the provider returns, what capture returns>>
Searches == { <<ResultsAB, WebPages>>, <<ResultsBad, WebDown>> }

QBeta == Lit(<<"b","e","t","a">>)
QAlphaBeta == Lit(<<"A","l","p","h","a"," ","b","e","t","a">>)
QStops == Lit(<<"i","s"," ","i","t"," ","a">>)
Queries == {QBeta, QAlphaBeta, QStops}

\* the provider returns the same URL twice
ResultsDup ==
    << SearchResult(Lit(<<"A","l","p","h","a">>), UrlA, SnipAlpha),
       SearchResult(Lit(<<"A","l","p","h","a">>), UrlA, SnipAlpha) >>
\* searches whose results exist already, fail, come up empty or repeat
SearchesWide ==
    Searches \cup { <<ResultsBad, WebPages>>, <<ResultsDup, WebPages>>, <<<<>>, WebDown>> }

(***************************************************************************)
(* State                                                                   *)
(***************************************************************************)
VARIABLES
    files,      \* research/resources/<id>/: meta.json, content.md, snippets.json, raw/
    ledger,     \* research/library.jsonl, one dict per line
    resources,  \* JsonlIndexer._resources of the running process
    index,      \* JsonlIndexer._index of the running process
    clock,      \* the next reading of Clock.now()
    sessions,   \* research/sessions/<session_id>/queries.json
    reviews,    \* research/reviews/<timestamp>__<slug>/: report.json, rubric.json
    resp,       \* the last operation and what it returned
    procs       \* commands running step by step in processes of their own

vars == <<files, ledger, resources, index, clock, sessions, reviews, resp, procs>>

Disk == [files |-> files, ledger |-> ledger]
Indexer == [resources |-> resources, index |-> index]

\* an empty storage directory and a process started on it
Init ==
    /\ files = <<>>
    /\ ledger = <<>>
    /\ resources = <<>>
    /\ index = <<>>
    /\ clock = 1
    /\ sessions = <<>>
    /\ reviews = <<>>
    /\ resp = [op |-> "init"]
    /\ procs = <<>>

Commit(out) ==
    /\ files' = out.disk.files
    /\ ledger' = out.disk.ledger
    /\ resources' = out.ix.resources
    /\ index' = out.ix.index

\* tool ingest <url>, the URLs answering as one of webs
IngestUrlFrom(webs) ==
    \E source \in Urls, web \in webs :
        \E out \in {IngestExecute(Disk, Indexer, clock, source, Absent, web[source])} :
        /\ out.clock <= MaxClock
        /\ Commit(out)
        /\ clock' = out.clock
        /\ resp' = out.resp
        /\ UNCHANGED <<sessions, reviews, procs>>

\* tool ingest <path>, the path and its file one of locals
IngestFileFrom(locals) ==
    \E local \in locals :
        \E out \in {IngestExecute(Disk, Indexer, clock, local[1], local[2], NoPage)} :
        /\ out.clock <= MaxClock
        /\ Commit(out)
        /\ clock' = out.clock
        /\ resp' = out.resp
        /\ UNCHANGED <<sessions, reviews, procs>>

IngestUrl == IngestUrlFrom(Webs)
IngestFile == IngestFileFrom(LocalFiles)

\* the same requests with sources that can be read and hold text
IngestPage == IngestUrlFrom({WebPages})
IngestDoc == IngestFileFrom(Docs)

\* tool search <query>, the provider and the web answering as one of searches
SearchFrom(queries, searches) ==
    \E query \in queries, search \in searches :
        \E out \in {RunSearchExecute(Disk, Indexer, clock, sessions, query,
                                      search[1], search[2])} :
        /\ out.clock <= MaxClock
        /\ Commit(out)
        /\ clock' = out.clock
        /\ sessions' = out.sessions
        /\ resp' = out.resp @@ [web |-> search[2]]
        /\ UNCHANGED <<reviews, procs>>

Search == SearchFrom({QBeta}, Searches)

\* tool reindex
Reindex ==
    \E out \in {ReindexExecute(Disk, Indexer)} :
    /\ Commit(out)
    /\ resp' = out.resp
    /\ UNCHANGED <<clock, sessions, reviews, procs>>

\* tool query <question> --topk k
Query ==
    \E question \in Queries, top_k \in 0..MaxTopK :
        /\ resp' = QueryExecute(Disk, Indexer, question, top_k)
        /\ UNCHANGED <<files, ledger, resources, index, clock, sessions, reviews, procs>>

\* the provider returns at most max_results results
max_results(results, n) == SubSeq(results, 1, IF n < Len(results) THEN n ELSE Len(results))

\* tool query <question> --topk k --live
QueryLive ==
    \E question \in {QBeta}, top_k \in 0..MaxTopK, search \in Searches :
        \E out \in {QueryLiveExecute(Disk, Indexer, clock, sessions, question, top_k,
                                     max_results(search[1], top_k), search[2])} :
        /\ out.clock <= MaxClock
        /\ Commit(out)
        /\ clock' = out.clock
        /\ sessions' = out.sessions
        /\ resp' = out.resp
        /\ UNCHANGED <<reviews, procs>>

\* a new process: JsonlIndexer.__init__ loads the ledger
Start ==
    \E ix \in {load(Disk)} :
    /\ resources' = ix.resources
    /\ index' = ix.index
    /\ resp' = [op |-> "start"]
    /\ UNCHANGED <<files, ledger, clock, sessions, reviews, procs>>

\* outside the program: a metadata file is damaged
CorruptMeta ==
    \E rid \in DOMAIN files :
        /\ files[rid].meta.k = "file"
        /\ files' = [files EXCEPT ![rid].meta = Corrupt]
        /\ resp' = [op |-> "corrupt"]
        /\ UNCHANGED <<ledger, resources, index, clock, sessions, reviews, procs>>

\* outside the program: the user deletes a resource directory
RemoveDir ==
    \E rid \in DOMAIN files :
        /\ files' = [r \in DOMAIN files \ {rid} |-> files[r]]
        /\ resp' = [op |-> "rmdir"]
        /\ UNCHANGED <<ledger, resources, index, clock, sessions, reviews, procs>>

\* the ids the requests of the model name: two that ingests store and one that
\* nothing stores
Ids == {from_url(UrlA), from_content(DocHello), from_url(UrlBad)}

\* tool summarize <id>
Summarize ==
    \E rid \in Ids, raw_summary \in {SnipGamma} :
        /\ resp' = SummarizeExecute(Disk, rid, raw_summary)
        /\ UNCHANGED <<files, ledger, resources, index, clock, sessions, reviews, procs>>

\* Indexer.remove(resource_id) on the running process's indexer
Remove ==
    \E rid \in Ids :
        \E ix \in {remove(Indexer, rid)} :
        /\ resources' = ix.resources
        /\ index' = ix.index
        /\ resp' = [op |-> "remove", rid |-> rid]
        /\ UNCHANGED <<files, ledger, clock, sessions, reviews, procs>>

\* Indexer.index_resource(resource, content) on the running process's indexer,
\* with a stored resource and its content; n counts the calls made with them in
\* a row since the id was not indexed
IndexResource ==
    \E rid \in DOMAIN files :
        /\ files[rid].meta.k = "file"
        /\ files[rid].content.k = "file"
        /\ IF HasKey(resources, rid)
           THEN resp.op = "index" /\ resp.rid = rid /\ resp.n < MaxCalls
           ELSE TRUE
        /\ \E resource \in {load_resource(Disk, rid).v}, content \in {files[rid].content.v} :
            \E ix \in {index_resource(Indexer, resource, content)} :
            /\ resources' = ix.resources
            /\ index' = ix.index
            /\ resp' = [op |-> "index", rid |-> rid, resource |-> resource,
                        content |-> content,
                        n |-> IF HasKey(resources, rid) THEN resp.n + 1 ELSE 1]
        /\ UNCHANGED <<files, ledger, clock, sessions, reviews, procs>>

\* the resources a caller of the store hands to save_resource:
\* <<url, title, content, tags, snippet_count>>
Saves ==
    { <<UrlA, SnipAlpha, PageAlpha, <<>>, 0>>,
      <<UrlA, SnipAlpha, PageAlpha, <<"t">>, 2>>,
      <<UrlB, PageBeta, PageBeta, <<"t">>, 2>>,
      <<UrlB, SnipGamma, DocHello, <<>>, 1>> }

\* Store.save_resource(resource, content_md) with a resource that is not stored yet
SaveResource ==
    \E save \in Saves :
        /\ ~resource_exists(Disk, from_url(save[1]))
        /\ clock + 1 <= MaxClock
        /\ \E resource \in {Resource(from_url(save[1]), save[2], save[1], clock,
                                      ContentHashOf(save[3]), save[4], save[5])} :
            \E disk \in {save_resource(Disk, resource, save[3], None)} :
            /\ files' = disk.files
            /\ ledger' = disk.ledger
            /\ resp' = [op |-> "save", resource |-> resource]
        /\ clock' = clock + 1
        /\ UNCHANGED <<resources, index, sessions, reviews, procs>>

\* tool search <query> with every kind of result
SearchWide == SearchFrom({QBeta, QAlphaBeta}, SearchesWide)

\* the lists of snippets a caller of the store hands to save_snippets
SnippetLists ==
    { <<>>,
      <<[text |-> SnipAlpha, start |-> 0]>>,
      <<[text |-> SnipGamma, start |-> 3], [text |-> SnipAlpha, start |-> 0]>> }

\* Store.save_resource(resource, content_md, raw_html), the id stored or not
SaveOver ==
    \E save \in Saves, raw_html \in {None, Some(PageAlpha)} :
        /\ clock + 1 <= MaxClock
        /\ \E resource \in {Resource(from_url(save[1]), save[2], save[1], clock,
                                      ContentHashOf(save[3]), save[4], save[5])} :
            \E disk \in {save_resource(Disk, resource, save[3], raw_html)} :
            /\ files' = disk.files
            /\ ledger' = disk.ledger
            /\ resp' = [op |-> "save", resource |-> resource, content_md |-> save[3]]
        /\ clock' = clock + 1
        /\ UNCHANGED <<resources, index, sessions, reviews, procs>>

\* Store.save_snippets(resource_id, snippets)
SaveSnippets ==
    \E rid \in {from_url(UrlA), from_url(UrlB)}, snippets \in SnippetLists :
        \E disk \in {save_snippets(Disk, rid, snippets)} :
        /\ files' = disk.files
        /\ resp' = [op |-> "save_snippets", rid |-> rid, snippets |-> snippets]
        /\ UNCHANGED <<ledger, resources, index, clock, sessions, reviews, procs>>

\* Store.load_snippets(resource_id)
LoadSnippets ==
    \E rid \in {from_url(UrlA), from_url(UrlB)} :
        /\ resp' = [op |-> "load_snippets", rid |-> rid,
                    snippets |-> load_snippets(Disk, rid)]
        /\ UNCHANGED <<files, ledger, resources, index, clock, sessions, reviews, procs>>

(***************************************************************************)
(* Commands in processes of their own, one file operation per step         *)
(***************************************************************************)
Running(p) == p \in DOMAIN procs

At(p, pcs) == Running(p) /\ procs[p].pc \in pcs

Spawn(p, rec) == [q \in DOMAIN procs \cup {p} |-> IF q = p THEN rec ELSE procs[q]]

\* tool reindex, up to the end of the walk (reindex.py lines 29-78): metadata
\* files are rewritten where the title changed, the ledger is still the old one
ReindexWalked ==
    /\ ~At("reindex", {"open", "write"})
    /\ \E done \in {ReindexWalk(ListDirSorted(files),
                                [files |-> files, total |-> 0, titles_fixed |-> 0,
                                 errors |-> <<>>, loaded |-> <<>>])} :
        /\ files' = done.files
        /\ procs' = Spawn("reindex", [op |-> "reindex", pc |-> "open", old |-> ledger,
                                      total |-> done.total,
                                      titles_fixed |-> done.titles_fixed,
                                      errors |-> done.errors, loaded |-> done.loaded,
                                      written |-> 0])
    /\ UNCHANGED <<ledger, resources, index, clock, sessions, reviews, resp>>

\* open(lib_path, "w") (line 82): the file is truncated when it is opened
ReindexOpened ==
    /\ At("reindex", {"open"})
    /\ ledger' = <<>>
    /\ procs' = [procs EXCEPT !["reindex"].pc = "write"]
    /\ UNCHANGED <<files, resources, index, clock, sessions, reviews, resp>>

\* f.write per loaded resource (lines 83-84): the lines go through the file
\* object's buffer, which reaches the file some lines at a time, the last of
\* them when the with block closes the file.  The file was opened with "w",
\* not "a": the lines go where the process's own last write ended, over
\* whatever another process appended there since (what may be left of such a
\* line behind the new ones is no JSON, and _load skips it).
ReindexWrote ==
    /\ At("reindex", {"write"})
    /\ \E n \in (procs["reindex"].written + 1)..Len(procs["reindex"].loaded) :
        /\ ledger' = SubSeq(ledger, 1, procs["reindex"].written)
                         \o SubSeq(rebuild_ledger(procs["reindex"].loaded),
                                   procs["reindex"].written + 1, n)
        /\ procs' = [procs EXCEPT !["reindex"].written = n]
    /\ UNCHANGED <<files, resources, index, clock, sessions, reviews, resp>>

\* the rest of execute (lines 86-97): the reindexing process refills its own
\* indexer and returns
ReindexReturned ==
    /\ At("reindex", {"write"})
    /\ procs["reindex"].written = Len(procs["reindex"].loaded)
    /\ procs' = [procs EXCEPT !["reindex"].pc = "done"]
    /\ resp' = [op |-> "reindex", total |-> procs["reindex"].total,
                titles_fixed |-> procs["reindex"].titles_fixed,
                errors |-> procs["reindex"].errors,
                loaded |-> [i \in 1..Len(procs["reindex"].loaded) |->
                                procs["reindex"].loaded[i][1].id],
                ix |-> rebuild_index(procs["reindex"].loaded, EmptyIndexer)]
    /\ UNCHANGED <<files, ledger, resources, index, clock, sessions, reviews>>

\* the reindexing process is killed between two file operations
ReindexCrashed ==
    /\ At("reindex", {"open", "write"})
    /\ procs' = [procs EXCEPT !["reindex"].pc = "crashed"]
    /\ resp' = [op |-> "crash"]
    /\ UNCHANGED <<files, ledger, resources, index, clock, sessions, reviews>>

\* ingests while no reindex is between its first and last file operation
IngestIdle ==
    /\ ~At("reindex", {"open", "write", "crashed"})
    /\ (IngestPage \/ IngestDoc)

(***************************************************************************)
(* tool ingest <url> in two processes on one storage directory              *)
(***************************************************************************)
Procs == {"p1", "p2"}

\* the directory of rid with one of its files replaced
WithFile(fs, rid, dir) ==
    [r \in DOMAIN fs \cup {rid} |-> IF r = rid THEN dir ELSE fs[r]]

\* the command starts: _build_container loads the process's own indexer
IngestStarted(p) ==
    /\ ~(Running(p) /\ procs[p].pc # "done")
    /\ \E source \in Urls :
        procs' = Spawn(p, [op |-> "ingest", pc |-> "check", source |-> source,
                           rid |-> from_url(source), ix |-> load(Disk),
                           page |-> NoPage, content_md |-> <<>>, resource |-> None,
                           raised |-> "none", captured |-> FALSE,
                           already_existed |-> FALSE])
    /\ UNCHANGED <<files, ledger, resources, index, clock, sessions, reviews, resp>>

\* what the command returns, and the process is gone
Returned(p, rec) ==
    /\ procs' = [procs EXCEPT ![p] = [rec EXCEPT !.pc = "done"]]
    /\ resp' = IngestResp(Request(rec.source, Absent, rec.page), rec.raised,
                          rec.captured, rec.already_existed, rec.resource)

\* the existence check (ingest_resource.py lines 46-51)
IngestChecked(p) ==
    /\ At(p, {"check"})
    /\ IF resource_exists(Disk, procs[p].rid) /\ load_resource_raises(Disk, procs[p].rid)
       THEN Returned(p, [procs[p] EXCEPT !.raised = "JSONDecodeError"])
       ELSE IF resource_exists(Disk, procs[p].rid)
               /\ load_resource(Disk, procs[p].rid).k = "some"
       THEN Returned(p, [procs[p] EXCEPT !.already_existed = TRUE,
                                         !.resource = load_resource(Disk, procs[p].rid)])
       ELSE /\ procs' = [procs EXCEPT ![p].pc = "capture"]
            /\ UNCHANGED resp
    /\ UNCHANGED <<files, ledger, resources, index, clock, sessions, reviews>>

\* capture, the empty-content check and the resource built (lines 53-85)
IngestCaptured(p) ==
    /\ At(p, {"capture"})
    /\ \E web \in {WebPages, WebDocs} :
        \E page \in {web[procs[p].source]} : \E content_md \in {OrEmpty(page.text)} :
        IF Blank(content_md)
        THEN /\ Returned(p, [procs[p] EXCEPT !.page = page, !.captured = TRUE,
                                             !.raised = "ValueError"])
             /\ UNCHANGED clock
        ELSE /\ clock + 1 <= MaxClock
             /\ clock' = clock + 1
             /\ procs' = [procs EXCEPT
                    ![p].pc = "meta", ![p].page = page, ![p].captured = TRUE,
                    ![p].content_md = content_md,
                    ![p].resource =
                        Some(Resource(procs[p].rid,
                                      extract_title(content_md, procs[p].source),
                                      procs[p].source, clock,
                                      ContentHashOf(content_md), <<>>, 0))]
             /\ UNCHANGED resp
    /\ UNCHANGED <<files, ledger, resources, index, sessions, reviews>>

\* save_resource: the directories are made and meta.json is opened with "w"
\* (filesystem_store.py lines 41-47): the file is there and empty
MetaOpened(p) ==
    /\ At(p, {"meta"})
    /\ files' = WithFile(files, procs[p].rid,
                         [DirOf(Disk, procs[p].rid) EXCEPT !.meta = Corrupt])
    /\ procs' = [procs EXCEPT ![p].pc = "meta_open"]
    /\ UNCHANGED <<ledger, resources, index, clock, sessions, reviews, resp>>

\* json.dump into meta.json and the file closed (line 48)
MetaWritten(p) ==
    /\ At(p, {"meta_open"})
    /\ files' = WithFile(files, procs[p].rid,
                         [DirOf(Disk, procs[p].rid) EXCEPT
                              !.meta = File(to_dict(procs[p].resource.v))])
    /\ procs' = [procs EXCEPT ![p].pc = "content"]
    /\ UNCHANGED <<ledger, resources, index, clock, sessions, reviews, resp>>

\* a store that opens content.md with "a": the text goes after what is there
ContentAppended(p) ==
    /\ At(p, {"content"})
    /\ files' = WithFile(files, procs[p].rid,
                         [DirOf(Disk, procs[p].rid) EXCEPT
                              !.content = File(Cat(OrEmpty(load_content(Disk, procs[p].rid)),
                                                   procs[p].content_md))])
    /\ procs' = [procs EXCEPT ![p].pc = "raw"]
    /\ UNCHANGED <<ledger, resources, index, clock, sessions, reviews, resp>>

\* content.md written (lines 51-52)
ContentWritten(p) ==
    /\ At(p, {"content"})
    /\ files' = WithFile(files, procs[p].rid,
                         [DirOf(Disk, procs[p].rid) EXCEPT
                              !.content = File(procs[p].content_md)])
    /\ procs' = [procs EXCEPT ![p].pc = "raw"]
    /\ UNCHANGED <<ledger, resources, index, clock, sessions, reviews, resp>>

\* snippets.json unless it is there, and the raw snapshot (lines 55-63)
RawWritten(p) ==
    /\ At(p, {"raw"})
    /\ \E old \in {DirOf(Disk, procs[p].rid)}, raw_html \in {procs[p].page.raw} :
        files' = WithFile(files, procs[p].rid,
                          [old EXCEPT
                             !.snippets = IF old.snippets.k = "absent"
                                          THEN File(<<>>) ELSE old.snippets,
                             !.raw = IF raw_html.k = "some" /\ raw_html.v # <<>>
                                     THEN File(raw_html.v) ELSE old.raw])
    /\ procs' = [procs EXCEPT ![p].pc = "append"]
    /\ UNCHANGED <<ledger, resources, index, clock, sessions, reviews, resp>>

\* _append_to_library (line 66)
LedgerAppended(p) ==
    /\ At(p, {"append"})
    /\ ledger' = append_to_library(ledger, procs[p].resource.v)
    /\ procs' = [procs EXCEPT ![p].pc = "index"]
    /\ UNCHANGED <<files, resources, index, clock, sessions, reviews, resp>>

\* index_resource on the process's own indexer and the response
\* (ingest_resource.py lines 88-91)
IngestReturned(p) ==
    /\ At(p, {"index"})
    /\ Returned(p, [procs[p] EXCEPT
                       !.ix = index_resource(procs[p].ix, procs[p].resource.v,
                                             procs[p].content_md)])
    /\ UNCHANGED <<files, ledger, resources, index, clock, sessions, reviews>>

IngestStep(p) ==
    \/ IngestStarted(p)
    \/ IngestChecked(p)
    \/ IngestCaptured(p)
    \/ MetaOpened(p)
    \/ MetaWritten(p)
    \/ ContentWritten(p)
    \/ RawWritten(p)
    \/ LedgerAppended(p)
    \/ IngestReturned(p)

(***************************************************************************)
(* Title extraction on its own                                              *)
(***************************************************************************)
MaxLines == 4

\* the lines documents are made of: delimiters, frontmatter fields, a heading,
\* a short line, an empty line and a line of TitleMaxLen characters
TitleLines ==
    { Dashes, Pluses,
      Lit(<<"t","i","t","l","e",":"," ","T">>),
      Lit(<<"a",":"," ","x">>),
      Lit(<<"#"," ","H","e","a","d">>),
      Lit(<<"i","n","t","r","o">>),
      <<>>,
      Rep("y", TitleMaxLen) }

\* "\n".join(lines)
RECURSIVE Join(_)
Join(ls) ==
    IF Len(ls) = 1 THEN ls[1]
    ELSE Cat(ls[1], Cat(Lit(<<"\n">>), Join(Tail(ls))))

Documents == UNION {[1..n -> TitleLines] : n \in 1..MaxLines}

\* a document and the fallback its caller supplies
InitTitle ==
    /\ files = <<>>
    /\ ledger = <<>>
    /\ resources = <<>>
    /\ index = <<>>
    /\ clock = 1
    /\ sessions = <<>>
    /\ reviews = <<>>
    /\ procs = <<>>
    /\ resp \in {[op |-> "document", content |-> Join(ls), fallback |-> UrlA,
                  title |-> <<>>] : ls \in Documents}

\* IngestResource._extract_title(content, fallback)
ExtractTitle ==
    /\ resp' = [resp EXCEPT !.op = "extract_title",
                            !.title = extract_title(resp.content, resp.fallback)]
    /\ UNCHANGED <<files, ledger, resources, index, clock, sessions, reviews, procs>>

\* Reindex._extract_title(content, fallback)
ReindexExtractTitle ==
    /\ resp' = [resp EXCEPT !.op = "reindex_extract_title",
                            !.title = reindex_extract_title(resp.content, resp.fallback)]
    /\ UNCHANGED <<files, ledger, resources, index, clock, sessions, reviews, procs>>

(***************************************************************************)
(* Resources through to_dict, from_dict and the store, on their own         *)
(***************************************************************************)
\* datetimes on the second and between seconds, in the first and the last
\* minute of the day
Timestamps ==
    { 0, 1, TicksPerSecond, 61 * TicksPerSecond + TicksPerSecond - 1,
      86400 * TicksPerSecond - 1 }

TagLists == { <<>>, <<"t">>, <<"t", "u">> }

SnippetCounts == { 0, 2 }

\* every resource of valid parts
RoundTripResources ==
    { Resource(id, title, url, ts, ContentHashOf(PageAlpha), tags, n) :
        id \in {from_url(UrlA), from_content(DocHello)}, title \in {SnipAlpha, <<>>},
        url \in {UrlA, Cat(FilePrefix, PathN)}, ts \in Timestamps,
        tags \in TagLists, n \in SnippetCounts }

\* a resource in the hands of a caller and an empty storage directory
InitRoundTrip ==
    /\ files = <<>>
    /\ ledger = <<>>
    /\ resources = <<>>
    /\ index = <<>>
    /\ clock = 1
    /\ sessions = <<>>
    /\ reviews = <<>>
    /\ procs = <<>>
    /\ resp \in {[op |-> "resource", resource |-> r] : r \in RoundTripResources}

\* Resource.from_dict(r.to_dict())
RoundTrip ==
    /\ resp.op = "resource"
    /\ resp' = [op |-> "round_trip", resource |-> resp.resource,
                back |-> Some(from_dict(to_dict(resp.resource)))]
    /\ UNCHANGED <<files, ledger, resources, index, clock, sessions, reviews, procs>>

\* store.save_resource(r, content_md) and then store.load_resource(r.id)
SaveLoad ==
    /\ resp.op = "resource"
    /\ \E disk \in {save_resource(Disk, resp.resource, PageAlpha, None)} :
        /\ files' = disk.files
        /\ ledger' = disk.ledger
        /\ resp' = [op |-> "save_load", resource |-> resp.resource,
                    back |-> load_resource(disk, resp.resource.id)]
    /\ UNCHANGED <<resources, index, clock, sessions, reviews, procs>>

(***************************************************************************)
(* Reviews on their own: what the model answers, and the rubric             *)
(***************************************************************************)
ScoreValues ==
    { JNum(0 - 5), JNum(0), JNum(10), JNum(59), JNum(60), JNum(70), JNum(150),
      JDigits(<<"8", "5">>), JStr("high"), JNull }

Summarized == [summary |-> JStr("s")]

\* objects with and without a score, with and without a verdict
Scored == {Summarized} \cup {("overall_score" :> v) @@ Summarized : v \in ScoreValues}

Judged == Scored \cup {("pass" :> JBool(b)) @@ o : b \in BOOLEAN, o \in Scored}

Issue(severity, title) == JObject([severity |-> JStr(severity), title |-> JStr(title)])

IssuesMixed ==
    << Issue("minor", "a"), Issue("critical", "b"), Issue("bogus", "c"),
       Issue("minor", "d"), JObject([title |-> JStr("e")]),
       JObject([severity |-> JStr("major")]), Issue("suggestion", "g"),
       Issue("major", "h"), Issue("critical", "i") >>

IssueValues ==
    { JList(<<>>), JList(IssuesMixed),
      JList(<<Issue("suggestion", "a"), Issue("major", "b"), Issue("major", "c")>>),
      JList(<<Issue("minor", "a"), JStr("x")>>), JNull }

WithIssues ==
    {("issues" :> l) @@ ("overall_score" :> JNum(70)) @@ Summarized : l \in IssueValues}

Bodies ==
    {JObject(o) : o \in Judged \cup WithIssues}
        \cup { JList(<<JNum(1), JNum(2)>>), JNum(5), JStr("t"), JBool(TRUE), JNull,
               JText, JBroken }

\* the body alone, in a code fence, or with text around it
Responses ==
    {[fenced |-> w[1], around |-> w[2], body |-> b] :
        w \in {<<FALSE, FALSE>>, <<TRUE, FALSE>>, <<FALSE, TRUE>>}, b \in Bodies}

Rubrics ==
    { [name |-> "general", pass_threshold |-> 60],
      [name |-> "strict", pass_threshold |-> 80],
      [name |-> "bare"] }

Artifact == [path |-> "/w/f.txt", filename |-> "f.txt", mime_type |-> "text/plain",
             size_bytes |-> 1]

\* the answer of the model and the rubric of the review
InitReview ==
    /\ files = <<>>
    /\ ledger = <<>>
    /\ resources = <<>>
    /\ index = <<>>
    /\ clock = 1
    /\ sessions = <<>>
    /\ reviews = <<>>
    /\ procs = <<>>
    /\ resp \in {[op |-> "llm", raw |-> raw, rubric |-> rubric] :
                    raw \in Responses, rubric \in Rubrics}

\* ReviewArtifact._parse_response(raw, rubric, artifact_ref)
ParseResponse ==
    /\ resp.op = "llm"
    /\ resp' = [op |-> "parse", raw |-> resp.raw, rubric |-> resp.rubric,
                out |-> parse_response(resp.raw, resp.rubric, Artifact)]
    /\ UNCHANGED <<files, ledger, resources, index, clock, sessions, reviews, procs>>

\* tool review <artifact>
Review ==
    /\ resp.op = "llm"
    /\ \E out \in {ReviewExecute(reviews, clock, resp.raw, resp.rubric, Artifact)} :
        /\ reviews' = out.reviews
        /\ clock' = out.clock
        /\ resp' = out.resp
    /\ UNCHANGED <<files, ledger, resources, index, sessions, procs>>

(***************************************************************************)
(* Specifications                                                          *)
(***************************************************************************)
\* the library as the program alone leaves it: ingests of every kind of source,
\* reindex runs and restarts
NextIngest ==
    \/ IngestUrl
    \/ IngestFile
    \/ Reindex
    \/ Start

SpecIngest == Init /\ [][NextIngest]_vars

\* the library with a user who deletes directories and with damaged metadata
NextFaults ==
    \/ IngestPage
    \/ IngestDoc
    \/ Reindex
    \/ Start
    \/ CorruptMeta
    \/ RemoveDir

SpecFaults == Init /\ [][NextFaults]_vars

\* a library that is filled and queried
NextQuery ==
    \/ IngestPage
    \/ IngestDoc
    \/ Reindex
    \/ Query

SpecQuery == Init /\ [][NextQuery]_vars

\* a reindex run step by step, with processes that start meanwhile and a
\* reindexing process that can be killed
NextRebuild ==
    \/ IngestIdle
    \/ ReindexWalked
    \/ ReindexOpened
    \/ ReindexWrote
    \/ ReindexReturned
    \/ ReindexCrashed
    \/ Start

SpecRebuild == Init /\ [][NextRebuild]_vars

\* every operation of the library, one at a time and without I/O failure
NextLibrary ==
    \/ IngestPage
    \/ IngestDoc
    \/ Search
    \/ Reindex
    \/ Query
    \/ Summarize
    \/ Remove

SpecLibrary == Init /\ [][NextLibrary]_vars

\* two ingest commands at a time, their file operations interleaved
NextRace == \E p \in Procs : IngestStep(p)

SpecRace == Init /\ [][NextRace]_vars

\* the indexer of one process driven through its port: resources are stored,
\* indexed again, removed, and the process restarted
NextIndexer ==
    \/ IngestPage
    \/ IngestDoc
    \/ IndexResource
    \/ Remove
    \/ Start

SpecIndexer == Init /\ [][NextIndexer]_vars

\* the store used through its port as well as by ingest, with reindex runs
NextStore ==
    \/ SaveResource
    \/ IngestDoc
    \/ Reindex
    \/ Start

SpecStore == Init /\ [][NextStore]_vars

\* the two title extractors applied to every document of up to MaxLines lines
NextTitle ==
    \/ ExtractTitle
    \/ ReindexExtractTitle

SpecTitle == InitTitle /\ [][NextTitle]_vars

\* searches over a library that ingests filled, some of its metadata damaged
NextSearch ==
    \/ IngestPage
    \/ SearchWide
    \/ CorruptMeta
    \/ Start

SpecSearch == Init /\ [][NextSearch]_vars

\* queries over a library whose directories the user deletes and whose metadata
\* is damaged while the process still holds its index
NextCite ==
    \/ IngestPage
    \/ IngestDoc
    \/ Query
    \/ RemoveDir
    \/ CorruptMeta

SpecCite == Init /\ [][NextCite]_vars

\* the store under a caller that saves resources again and keeps snippets
NextSnippets ==
    \/ SaveOver
    \/ SaveSnippets
    \/ LoadSnippets

SpecSnippets == Init /\ [][NextSnippets]_vars

\* resources of every shape written out and read back
NextRoundTrip ==
    \/ RoundTrip
    \/ SaveLoad

SpecRoundTrip == InitRoundTrip /\ [][NextRoundTrip]_vars

\* reviews of one artifact, whatever the model answers
NextReview ==
    \/ ParseResponse
    \/ Review

SpecReview == InitReview /\ [][NextReview]_vars

\* one process after another ingesting and searching, nothing else touching
\* the library
NextCache ==
    \/ IngestPage
    \/ IngestDoc
    \/ Search
    \/ Start

SpecCache == Init /\ [][NextCache]_vars

\* tool reindex and tool ingest <url> in processes of their own on one storage
\* directory, one file operation per step
NextRebuildRace ==
    \/ ReindexWalked
    \/ ReindexOpened
    \/ ReindexWrote
    \/ ReindexReturned
    \/ IngestStep("p1")

SpecRebuildRace == Init /\ [][NextRebuildRace]_vars

(***************************************************************************)
(* Properties                                                              *)
(***************************************************************************)
\* the lines of a ledger that carry the id rid
LedgerLines(led, rid) == {i \in 1..Len(led) : led[i].id = rid}

\* the text holds no character other than whitespace
NoText(text) == \A i \in 1..Len(text) : text[i][1] \in Whitespace

\* no directory, ledger line or index entry carries the id rid
NoTrace(disk, ix, rid) ==
    /\ rid \notin DOMAIN disk.files
    /\ LedgerLines(disk.ledger, rid) = {}
    /\ ~HasKey(ix.resources, rid)
    /\ \A t \in DOMAIN ix.index : ~HasKey(ix.index[t], rid)

LibraryUnchanged == UNCHANGED <<files, ledger, resources, index>>

\* C1: an ingest of a URL whose URL-derived id already has a directory in the store
\* returns the stored resource with already_existed = TRUE, does not call the
\* snapshotter and leaves the resource directories, the ledger and the in-memory
\* index as they were; and after every ingest of a URL that returns normally, the
\* first or a repeated one, the ledger holds exactly one line for that URL's id.
C1_ExistingUrlReturned ==
    [][ (resp'.op = "ingest" /\ IsWebSource(resp'.source)) =>
            /\ from_url(resp'.source) \in DOMAIN files =>
                  /\ resp'.raised = "none"
                  /\ resp'.already_existed
                  /\ resp'.resource = Some(from_dict(files[from_url(resp'.source)].meta.v))
                  /\ ~resp'.captured
                  /\ LibraryUnchanged
            /\ resp'.raised = "none" =>
                  Cardinality(LedgerLines(ledger', from_url(resp'.source))) = 1 ]_vars

\* a URL was ingested again: the stored resource came back and nothing was captured
C1_Witness ==
    /\ resp.op = "ingest"
    /\ IsWebSource(resp.source)
    /\ resp.already_existed
    /\ ~resp.captured
    /\ resp.resource = load_resource(Disk, from_url(resp.source))
    /\ Cardinality(LedgerLines(ledger, from_url(resp.source))) = 1

\* C2 as stated: of two local files with the same non-empty content ingested one
\* after the other, the second ingest returns already_existed = TRUE and writes
\* nothing.
C2_NonEmptyTwice ==
    [][ ( /\ resp.op = "ingest" /\ ~IsWebSource(resp.source)
          /\ resp'.op = "ingest" /\ ~IsWebSource(resp'.source)
          /\ resp.file.k = "file" /\ resp.file.v # <<>>
          /\ resp'.file = resp.file ) =>
            /\ resp'.raised = "none"
            /\ resp'.already_existed
            /\ LibraryUnchanged ]_vars

\* C2, amended: of two local files with the same content holding at least one
\* non-whitespace character, ingested one after the other under any paths, the
\* second ingest yields the id of the first, returns already_existed = TRUE and
\* writes nothing: no ledger line, no metadata or content file, no index change.
C2_SameContentTwice ==
    [][ ( /\ resp.op = "ingest" /\ ~IsWebSource(resp.source)
          /\ resp'.op = "ingest" /\ ~IsWebSource(resp'.source)
          /\ resp.file.k = "file" /\ ~NoText(resp.file.v)
          /\ resp'.file = resp.file ) =>
            /\ resp.raised = "none"
            /\ resp'.raised = "none"
            /\ resp'.already_existed
            /\ resp'.resource.v.id = resp.resource.v.id
            /\ resp'.resource.v.id = from_content(resp.file.v)
            /\ LibraryUnchanged ]_vars

\* the content stored from n.md was ingested again from d/m.md
C2_Witness ==
    /\ resp.op = "ingest"
    /\ resp.source = PathM
    /\ resp.file = File(DocHello)
    /\ resp.already_existed
    /\ resp.resource.v.url = Cat(FilePrefix, abspath(PathN))
    /\ Len(ledger) = 1

\* C3 as stated: a newly stored local file carries the title the title heuristic
\* finds in its content, the frontmatter title first, and its basename only when
\* the heuristic finds nothing.
C3_LocalTitleFromContent ==
    (/\ resp.op = "ingest" /\ ~IsWebSource(resp.source)
     /\ resp.raised = "none" /\ ~resp.already_existed) =>
        resp.resource.v.title = extract_title(resp.file.v, basename(resp.source))

\* C4: an ingest that captured a page without text, or read a local file without
\* text, fails with ValueError, and an ingest of a local path that does not exist
\* fails with FileNotFoundError; the resource directories, the ledger and the index
\* stay as they were, nothing carries the id of the source, and the same source
\* ingested next is not reported as already existing.
C4_FailedIngestLeavesNothing ==
    [][ resp'.op = "ingest" =>
          LET r == resp'
              web == IsWebSource(r.source)
          IN  /\ (web /\ r.captured /\ NoText(OrEmpty(r.page.text))) =>
                    /\ r.raised = "ValueError"
                    /\ LibraryUnchanged
                    /\ NoTrace(Disk', Indexer', from_url(r.source))
                    /\ \A w \in Webs :
                         ~IngestExecute(Disk', Indexer', clock', r.source, Absent,
                                        w[r.source]).resp.already_existed
              /\ (~web /\ r.file.k = "file" /\ NoText(r.file.v)) =>
                    /\ r.raised = "ValueError"
                    /\ LibraryUnchanged
                    /\ NoTrace(Disk', Indexer', from_content(r.file.v))
                    /\ ~IngestExecute(Disk', Indexer', clock', r.source, r.file,
                                      NoPage).resp.already_existed
              /\ (~web /\ r.file.k = "absent") =>
                    /\ r.raised = "FileNotFoundError"
                    /\ LibraryUnchanged
                    /\ ~IngestExecute(Disk', Indexer', clock', r.source, r.file,
                                      NoPage).resp.already_existed ]_vars

\* a page of whitespace was captured for a URL while the library held a resource
C4_Witness ==
    /\ resp.op = "ingest"
    /\ resp.captured
    /\ resp.page = Page(DocBlank)
    /\ resp.raised = "ValueError"
    /\ ledger # <<>>
    /\ NoTrace(Disk, Indexer, from_url(resp.source))

\* how often x occurs in the sequence seq
Occurrences(seq, x) == Cardinality({i \in 1..Len(seq) : seq[i] = x})

\* the keys of an insertion-ordered dict
Keys(d) == {d[i][1] : i \in 1..Len(d)}

NoDuplicates(seq) == \A i, j \in 1..Len(seq) : seq[i] = seq[j] => i = j

\* index[term][rid], 0 when there is no such entry
Count(ix, term, rid) ==
    IF term \in DOMAIN ix.index /\ HasKey(ix.index[term], rid)
    THEN Get(ix.index[term], rid) ELSE 0

\* the counts the index holds for rid are those of the tokens of text, each
\* occurrence counted once
IndexedAs(ix, rid, text) ==
    \A indexed \in {text} : \A tokens \in {tokenize(indexed)} :
        /\ \A i \in 1..Len(tokens) : tokens[i] \in DOMAIN ix.index
        /\ \A t \in DOMAIN ix.index : Count(ix, t, rid) = Occurrences(tokens, t)

\* the first ledger line that carries rid
FirstLine(led, rid) ==
    led[CHOOSE i \in LedgerLines(led, rid) : \A j \in LedgerLines(led, rid) : i <= j]

\* content.md of rid, empty when there is none
StoredBody(disk, rid) == OrEmpty(load_content(disk, rid))

\* the index holds one record per id of the ledger, the one of the id's first line
LoadedFirstWins ==
    /\ NoDuplicates([i \in 1..Len(resources) |-> resources[i][1]])
    /\ Keys(resources) = {ledger[i].id : i \in 1..Len(ledger)}
    /\ \A rid \in Keys(resources) :
         Get(resources, rid) = from_dict(FirstLine(ledger, rid))

\* C5 as stated: after the index is built from the ledger it holds one record per
\* distinct id, the one of the id's first line, and the id's token counts are those
\* of one indexing of title + the stored body.
C5_LoadCountsWholeBody ==
    resp.op = "start" =>
        /\ LoadedFirstWins
        /\ \A rid \in Keys(resources) :
             IndexedAs(Indexer, rid,
                       TitleAndContent(Get(resources, rid).title, StoredBody(Disk, rid)))

\* C5, amended: after the index is built from the ledger it holds one record per
\* distinct id however many lines carry it, the one of the id's first line, and the
\* id's token counts are those of one indexing of title + the first 10,000
\* characters of the stored body.
C5_LoadFirstWins ==
    resp.op = "start" =>
        /\ LoadedFirstWins
        /\ \A rid \in Keys(resources) :
             IndexedAs(Indexer, rid,
                       TitleAndContent(Get(resources, rid).title,
                                       Take(StoredBody(Disk, rid), 10000)))

\* an index built from a ledger with two different lines for one id
C5_Witness ==
    /\ resp.op = "start"
    /\ \E i, j \in 1..Len(ledger) :
         /\ i < j
         /\ ledger[i].id = ledger[j].id
         /\ ledger[i] # ledger[j]
         /\ Get(resources, ledger[i].id) = from_dict(ledger[i])

\* the sum over the query tokens of the occurrence counts of rid
RECURSIVE Score(_, _, _)
Score(ix, terms, rid) ==
    IF terms = <<>> THEN 0
    ELSE Count(ix, Head(terms), rid) + Score(ix, Tail(terms), rid)

\* C6: search_local returns a duplicate-free list of min(top_k, number of resources
\* with a positive score) ids, each with a positive score, ordered by non-increasing
\* score, and no resource left out has a higher score than a returned one; the score
\* of a resource is the sum over the query tokens of its occurrence counts.
C6_SearchRanksByScore ==
    resp.op = "query" =>
        \A terms \in {tokenize(resp.question)} :
        LET ids == resp.ids
            positive == {rid \in Keys(resources) : Score(Indexer, terms, rid) > 0}
            least == IF resp.top_k < Cardinality(positive)
                     THEN resp.top_k ELSE Cardinality(positive)
        IN  /\ NoDuplicates(ids)
            /\ Len(ids) = least
            /\ \A i \in 1..Len(ids) : ids[i] \in positive
            /\ \A i, j \in 1..Len(ids) :
                 i < j => Score(Indexer, terms, ids[i]) >= Score(Indexer, terms, ids[j])
            /\ \A rid \in positive : \A i \in 1..Len(ids) :
                 Occurrences(ids, rid) = 0 =>
                     Score(Indexer, terms, rid) <= Score(Indexer, terms, ids[i])

\* B ("beta") was indexed before A ("alpha beta beta") and "beta" returns A first
C6_Witness ==
    /\ resp.op = "query"
    /\ resp.question = QBeta
    /\ Len(resources) = 2
    /\ resources[1][1] = from_url(UrlB)
    /\ resp.ids = <<from_url(UrlA), from_url(UrlB)>>

\* C7: a query on an empty index finds no ids, and whenever search_local returns no
\* ids the query returns the fixed message with no citations and no sources, does
\* not raise and does not call the LLM.
C7_NoResultsMessage ==
    resp.op = "query" =>
        /\ (resources = <<>> /\ index = <<>>) => resp.ids = <<>>
        /\ resp.ids = <<>> =>
             /\ resp.raised = "none"
             /\ resp.text = NoRelevantText
             /\ resp.citations = <<>>
             /\ resp.sources = <<>>
             /\ ~resp.llm_called

\* "beta" was asked of an empty index
C7_Witness ==
    /\ resp.op = "query"
    /\ resources = <<>>
    /\ resp.question = QBeta
    /\ resp.top_k > 0
    /\ resp.ids = <<>>
    /\ resp.text = NoRelevantText

\* C8: a reindex run right after a reindex run fixes no title and leaves every
\* resource directory, the ledger and the in-memory index as the first run left
\* them.
C8_ReindexIdempotent ==
    [][ (resp.op = "reindex" /\ resp'.op = "reindex") =>
            /\ resp'.titles_fixed = 0
            /\ resp'.total = resp.total
            /\ LibraryUnchanged ]_vars

\* one file was ever stored, a run gave it the frontmatter title, and a later run
\* over it fixed nothing
C8_Witness ==
    /\ resp.op = "reindex"
    /\ resp.titles_fixed = 0
    /\ clock = 2
    /\ Len(ledger) = 1
    /\ ledger[1].url = Cat(FilePrefix, abspath(PathN))
    /\ ledger[1].title # basename(PathN)

\* the directories of files whose meta.json are of kind k
DirsWithMeta(fs, k) == {rid \in DOMAIN fs : fs[rid].meta.k = k}

C10_ReindexRebuilds ==
    [][ resp'.op = "reindex" =>
          LET ok == DirsWithMeta(files, "file")
          IN  /\ \A rid \in ok :
                   /\ Cardinality(LedgerLines(ledger', rid)) = 1
                   /\ FirstLine(ledger', rid) = files'[rid].meta.v
              /\ \A i \in 1..Len(ledger') : ledger'[i].id \in ok
              /\ Keys(resources') = ok
              /\ Len(resources') = Cardinality(ok)
              /\ \A t \in DOMAIN index' : Keys(index'[t]) \subseteq ok
              /\ \A rid \in ok :
                   /\ Get(resources', rid) = from_dict(files'[rid].meta.v)
                   /\ IndexedAs(Indexer', rid,
                                TitleAndContent(files'[rid].meta.v.title,
                                                Take(StoredBody(Disk', rid), 10000))) ]_vars

\* two resources were stored, and after the run the ledger is the one line of the
\* second: the first line, stale or a duplicate, is gone
C10_Witness ==
    /\ resp.op = "reindex"
    /\ clock = 3
    /\ Len(ledger) = 1
    /\ ledger[1].captured_at = Iso(2)
    /\ Keys(resources) = {ledger[1].id}
    /\ DOMAIN files = {ledger[1].id}

\* C11: at every point of a reindex run between its first and last file
\* operation, and after a crash of the run, the ledger file is the complete
\* ledger of before the run or the complete rebuilt one.
C11_RebuildAtomic ==
    At("reindex", {"open", "write", "crashed"}) =>
        \/ ledger = procs["reindex"].old
        \/ ledger = rebuild_ledger(procs["reindex"].loaded)

IsPrefix(a, b) == Len(a) <= Len(b) /\ SubSeq(b, 1, Len(a)) = a

\* the ledger holds one line per resource directory, in the order of the ids,
\* each the content of the directory's metadata file
LedgerOfDirs(fs, led) ==
    \A dirs \in {ListDirSorted(fs)} :
        /\ Len(led) = Len(dirs)
        /\ \A i \in 1..Len(dirs) : fs[dirs[i]].meta = File(led[i])

\* C12 as stated: under every operation the ledger before is a prefix of the
\* ledger after.
C12_LedgerAppendOnly == [][IsPrefix(ledger, ledger')]_vars

\* C12: under every operation other than reindex (ingest, search-and-store,
\* remove, query, summarize) the ledger before is a prefix of the ledger after;
\* reindex replaces the ledger by one line per resource directory, in the order
\* of the ids, each line the directory's metadata as the run left it.
C12_AppendOnlyButReindex ==
    [][ /\ resp'.op # "reindex" => IsPrefix(ledger, ledger')
        /\ resp'.op = "reindex" => LedgerOfDirs(files', ledger') ]_vars

\* a reindex that rewrote a title has returned: the ledger holds the new title
C12_Witness ==
    /\ resp.op = "reindex"
    /\ resp.titles_fixed > 0
    /\ ledger # <<>>
    /\ LedgerOfDirs(files, ledger)

\* C13: after any sequence of ingests, searches and reindex runs, one at a time
\* and without I/O failure, every id with a metadata file has exactly one ledger
\* line, that line equals the content of the metadata file, and every id on a
\* ledger line has a metadata file.
C13_LedgerConsistent ==
    /\ \A rid \in DOMAIN files :
         files[rid].meta.k # "absent" =>
             /\ Cardinality(LedgerLines(ledger, rid)) = 1
             /\ files[rid].meta = File(FirstLine(ledger, rid))
    /\ \A i \in 1..Len(ledger) :
         /\ ledger[i].id \in DOMAIN files
         /\ files[ledger[i].id].meta.k = "file"

\* ingests and a search have stored resources and a reindex has rewritten a title
C13_Witness ==
    /\ resp.op = "reindex"
    /\ resp.titles_fixed > 0
    /\ sessions # <<>>
    /\ Len(ledger) >= 3
    /\ \E i \in 1..Len(ledger) : ledger[i].id = from_content(DocHello)

\* every ingest command that was started has returned
AllReturned == procs # <<>> /\ \A p \in DOMAIN procs : procs[p].pc = "done"

\* both commands named source, found it new and stored what they captured
BothStored(source) ==
    /\ DOMAIN procs = Procs
    /\ \A p \in Procs :
         /\ procs[p].pc = "done"
         /\ procs[p].source = source
         /\ procs[p].raised = "none"
         /\ ~procs[p].already_existed

\* C14: once the ingest commands running side by side have returned, the ledger
\* holds at most two lines for an id, and an index loaded from it lists each id
\* of the ledger once, with the record of the id's first line and the token
\* counts of one indexing of that title and the stored content.
C14_RaceLoadsOnce ==
    AllReturned =>
        \A ix \in {load(Disk)} :
            /\ NoDuplicates([i \in 1..Len(ix.resources) |-> ix.resources[i][1]])
            /\ Keys(ix.resources) = {ledger[i].id : i \in 1..Len(ledger)}
            /\ \A rid \in Keys(ix.resources) :
                 /\ Cardinality(LedgerLines(ledger, rid)) <= 2
                 /\ Get(ix.resources, rid) = from_dict(FirstLine(ledger, rid))
                 /\ IndexedAs(ix, rid,
                              TitleAndContent(FirstLine(ledger, rid).title,
                                              Take(StoredBody(Disk, rid), LoadContentCap)))

\* two ingests of http://a both passed the existence check and both appended
C14_Witness ==
    /\ BothStored(UrlA)
    /\ Cardinality(LedgerLines(ledger, from_url(UrlA))) = 2

\* both commands stored source and captured different text
RacedApart(source) ==
    /\ BothStored(source)
    /\ procs["p1"].content_md # procs["p2"].content_md

\* p wrote the metadata file of its id as it is now
WroteMeta(p) == DirOf(Disk, procs[p].rid).meta = File(to_dict(procs[p].resource.v))

\* p wrote the content file of its id as it is now
WroteContent(p) == DirOf(Disk, procs[p].rid).content = File(procs[p].content_md)

\* the hash the metadata file records is the digest of the content file
HashMatches(rid) ==
    DirOf(Disk, rid).meta.v.content_hash = ContentHashOf(DirOf(Disk, rid).content.v)

C16_IndexAccumulates ==
    resp.op = "index" =>
        \A once \in {index_resource(EmptyIndexer, resp.resource, resp.content)} :
            /\ \A t \in DOMAIN index \cup DOMAIN once.index :
                 Count(Indexer, t, resp.rid) = resp.n * Count(once, t, resp.rid)
            /\ Occurrences([i \in 1..Len(list_all(Indexer)) |-> list_all(Indexer)[i].id],
                           resp.rid) = 1

\* three calls in a row with the page of http://a: "beta", twice in the title
\* and twice in the text, is counted twelve times
C16_Witness ==
    /\ resp.op = "index"
    /\ resp.n = 3
    /\ resp.content = PageAlpha
    /\ Count(Indexer, QBeta, resp.rid) = 12

\* every id search_local returns, whatever the query, is one list_all holds
ReturnsListed(ix) ==
    \A query \in Queries, top_k \in 0..MaxTopK :
        \A found \in {search_local(ix, query, top_k)} :
            \A i \in 1..Len(found) : HasKey(ix.resources, found[i])

\* C17: remove(id) takes the id out of list_all and out of every term's counts,
\* leaves the records and counts of every other id, the ledger and the files as
\* they were, and changes nothing when the id is not indexed; an id that
\* list_all does not hold is returned by no search, and it is listed again only
\* by an operation that indexes it.
C17_RemoveForgetsOne ==
    [][ /\ resp'.op = "remove" =>
            /\ ~HasKey(resources', resp'.rid)
            /\ \A t \in DOMAIN index' : ~HasKey(index'[t], resp'.rid)
            /\ \A other \in Keys(resources) \ {resp'.rid} :
                 /\ HasKey(resources', other)
                 /\ Get(resources', other) = Get(resources, other)
                 /\ \A t \in DOMAIN index \cup DOMAIN index' :
                      Count(Indexer', t, other) = Count(Indexer, t, other)
            /\ files' = files
            /\ ledger' = ledger
            /\ ~HasKey(resources, resp'.rid) => resources' = resources /\ index' = index
        /\ ReturnsListed(Indexer')
        /\ \A i \in 1..Len(SortedIds) :
             ~HasKey(resources, SortedIds[i]) /\ HasKey(resources', SortedIds[i]) =>
                 resp'.op \in {"ingest", "index", "start"} ]_vars

\* the page of http://a was removed from an indexer that holds another resource;
\* its directory and its ledger line are still there
C17_Witness ==
    /\ resp.op = "remove"
    /\ resp.rid = from_url(UrlA)
    /\ resp.rid \in DOMAIN files
    /\ LedgerLines(ledger, resp.rid) # {}
    /\ ~HasKey(resources, resp.rid)
    /\ resources # <<>>

\* the metadata of rid was rewritten in this step
MetaRewritten(rid) ==
    /\ rid \in DOMAIN files /\ rid \in DOMAIN files'
    /\ files[rid].meta.k = "file" /\ files'[rid].meta.k = "file"
    /\ files'[rid].meta # files[rid].meta

\* C18: the metadata file of a stored resource is rewritten by reindex only, and
\* then every field other than the title (id, URL, captured-at, content hash,
\* tags, snippet count) keeps its value, in the file and on the id's line of
\* the rebuilt ledger.
C18_OnlyTitleChanges ==
    [][ \A rid \in DOMAIN files :
          MetaRewritten(rid) =>
              /\ resp'.op = "reindex"
              /\ [files'[rid].meta.v EXCEPT !.title = files[rid].meta.v.title]
                     = files[rid].meta.v
              /\ \A i \in LedgerLines(ledger', rid) :
                     [ledger'[i] EXCEPT !.title = files[rid].meta.v.title]
                         = files[rid].meta.v ]_vars

\* a title extractor has been applied to the document of resp
Extracted == resp.op \in {"extract_title", "reindex_extract_title"}

\* the document opens with a frontmatter delimiter
Opens(lines) == Strip(lines[1]) \in {Dashes, Pluses}

\* the lines after the frontmatter block that lines opens with: after the first
\* line equal to the opening delimiter; none when the block is never closed
AfterBlock(lines) ==
    LET closing == {i \in 2..Len(lines) : Strip(lines[i]) = Strip(lines[1])}
    IN  IF closing = {} THEN <<>>
        ELSE SubSeq(lines, (CHOOSE i \in closing : \A j \in closing : i <= j) + 1,
                    Len(lines))

\* the frontmatter block of lines is closed and holds no non-empty title field
BlockWithoutTitle(lines) ==
    /\ Opens(lines)
    /\ \E i \in 2..Len(lines) : Strip(lines[i]) = Strip(lines[1])
    /\ FrontmatterTitle(Tail(lines), Strip(lines[1])) = NoTitle

IsHeading(line) == StartsWith(Strip(line), HeadingMark)

IsShort(line) == Strip(line) # <<>> /\ TLen(Strip(line)) < TitleMaxLen

\* the text of the first level-1 heading of scanned
FirstHeading(scanned) ==
    LET i == CHOOSE i \in 1..Len(scanned) :
                 IsHeading(scanned[i]) /\ \A j \in 1..(i - 1) : ~IsHeading(scanned[j])
    IN  Strip(Drop(Strip(scanned[i]), 2))

\* the text the claim lets the extractor scan: the whole document without
\* frontmatter, the body after a frontmatter block without a title
Scanned(lines) ==
    IF ~Opens(lines) THEN lines
    ELSE IF BlockWithoutTitle(lines) THEN AfterBlock(lines)
    ELSE <<>>

\* C19: when the scanned text (a document without frontmatter, or the body
\* after a frontmatter block without a title) holds a level-1 heading, the
\* title is the text of the first heading, whatever short lines precede it.
C19_HeadingPreferred ==
    Extracted =>
        \A scanned \in {Scanned(Split(resp.content, "\n"))} :
            (\E i \in 1..Len(scanned) : IsHeading(scanned[i])) =>
                resp.title = FirstHeading(scanned)

\* C20: for a document that opens with a closed frontmatter block without a
\* non-empty title field, and whose body after the block has no level-1 heading
\* and no non-empty line under TitleMaxLen characters, the title is the
\* fallback.
C20_FallbackAfterFrontmatter ==
    Extracted =>
        \A lines \in {Split(resp.content, "\n")} :
            ( /\ BlockWithoutTitle(lines)
              /\ \A i \in 1..Len(AfterBlock(lines)) :
                   ~IsHeading(AfterBlock(lines)[i]) /\ ~IsShort(AfterBlock(lines)[i]) )
            => resp.title = resp.fallback

\* the ids of a list of provider results, in provider order
ResultIds(results) == [i \in 1..Len(results) |-> from_url(results[i].url)]

\* the store holds a metadata file for rid
HasMeta(fs, rid) == rid \in DOMAIN fs /\ fs[rid].meta.k # "absent"

\* the counts of rid are the same in two indexers
SameEntries(ix1, ix2, rid) ==
    /\ HasKey(ix1.resources, rid) = HasKey(ix2.resources, rid)
    /\ HasKey(ix1.resources, rid) => Get(ix1.resources, rid) = Get(ix2.resources, rid)
    /\ \A t \in DOMAIN ix1.index \cup DOMAIN ix2.index :
           Count(ix1, t, rid) = Count(ix2, t, rid)

\* C21: in a search-and-store, a provider result whose URL-derived id the store
\* holds already is not captured and not stored again: its directory, its ledger
\* lines and its index entries stay as they were; its id is in the session's list
\* of resource ids, which holds the ids of the existing and the newly stored
\* results in provider order; and it counts as skipped: every result that is not
\* newly stored is skipped once.
C21_ExistingResultSkipped ==
    [][ resp'.op = "search" =>
          \A ids \in {ResultIds(resp'.results)} :
            /\ \A i \in 1..Len(ids) :
                 HasMeta(files, ids[i]) =>
                    /\ \A j \in 1..Len(resp'.captured) :
                           resp'.captured[j] # resp'.results[i].url
                    /\ \A j \in 1..Len(resp'.stored) : resp'.stored[j] # ids[i]
                    /\ files'[ids[i]] = files[ids[i]]
                    /\ \A k \in 1..Len(ledger') :
                           ledger'[k].id = ids[i] => k <= Len(ledger) /\ ledger[k] = ledger'[k]
                    /\ SameEntries(Indexer, [resources |-> resources', index |-> index'],
                                   ids[i])
            /\ resp'.resource_ids =
                 SelectSeq(ids, LAMBDA rid :
                     HasMeta(files, rid)
                         \/ \E j \in 1..Len(resp'.stored) : resp'.stored[j] = rid)
            /\ resp'.skipped = Len(ids) - Len(resp'.stored) ]_vars

\* a search whose first result was in the store and whose second was not
C21_Witness ==
    /\ resp.op = "search"
    /\ resp.resource_ids = <<from_url(UrlA), from_url(UrlB)>>
    /\ resp.stored = <<from_url(UrlB)>>
    /\ resp.captured = <<UrlB>>
    /\ resp.skipped = 1

\* what a search-and-store makes of its i-th result: the id was in the store or
\* an earlier result of the same invocation stored it ("existing"), text and
\* snippet are both empty ("empty"), the URL is not valid ("failed"), or the
\* result is stored ("stored")
ResultText(r, i) ==
    IF r.web[r.results[i].url].text.k = "some" /\ r.web[r.results[i].url].text.v # <<>>
    THEN r.web[r.results[i].url].text.v ELSE r.results[i].snippet

Storable(fs, r, i) ==
    /\ ~HasMeta(fs, from_url(r.results[i].url))
    /\ ~NoText(ResultText(r, i))
    /\ UrlValid(r.results[i].url)

ResultKind(fs, r, i) ==
    IF \/ HasMeta(fs, from_url(r.results[i].url))
       \/ \E j \in 1..(i - 1) : r.results[j].url = r.results[i].url /\ Storable(fs, r, j)
    THEN "existing"
    ELSE IF NoText(ResultText(r, i)) THEN "empty"
    ELSE IF ~UrlValid(r.results[i].url) THEN "failed"
    ELSE "stored"

\* C28: a search-and-store accounts for each provider result exactly once: the
\* results whose id exists already, whose text and snippet are both empty or
\* whose handling raises (an invalid URL) each add one to skipped, every other
\* result is stored, whatever happened to the results before it, so the number
\* of results is the number of newly stored resources plus skipped; and the
\* session record of the invocation is persisted with the query, the resource
\* ids and the skipped count.
C28_EveryResultAccounted ==
    [][ resp'.op = "search" =>
          \A r \in {resp'} :
            /\ r.skipped = Cardinality({i \in 1..Len(r.results) :
                                           ResultKind(files, r, i) # "stored"})
            /\ \A kept \in {SelectSeq([i \in 1..Len(r.results) |-> i], LAMBDA i :
                                     ResultKind(files, r, i) = "stored")} :
                   r.stored = [k \in 1..Len(kept) |-> from_url(r.results[kept[k]].url)]
            /\ \A i \in 1..Len(r.stored) : HasMeta(files', r.stored[i])
            /\ Len(r.results) = Len(r.stored) + r.skipped
            /\ r.session_id \in DOMAIN sessions'
            /\ sessions'[r.session_id].queries = <<r.query>>
            /\ sessions'[r.session_id].session.resource_ids = r.resource_ids
            /\ sessions'[r.session_id].skipped = r.skipped ]_vars

\* a search whose first result failed on its URL and whose second was stored
C28_Witness ==
    /\ resp.op = "search"
    /\ Len(resp.results) = 2
    /\ resp.results[1].url = UrlBad
    /\ resp.stored = <<from_url(UrlB)>>
    /\ resp.skipped = 1
    /\ resp.session_id \in DOMAIN sessions

\* the sources and citations of a query answer go together: as many citations
\* as sources, at most top_k, the i-th citation made of the i-th source, and
\* the sources are the ids the index returned whose metadata loads, in the
\* order of search_local
CitationsMatchSources(r) ==
    /\ r.ids = search_local(Indexer, r.question, r.top_k)
    /\ Len(r.citations) = Len(r.sources)
    /\ Len(r.sources) <= r.top_k
    /\ \A i \in 1..Len(r.sources) :
          /\ r.citations[i].resource_id = r.sources[i].id
          /\ r.citations[i].resource_title = r.sources[i].title
          /\ r.citations[i].url = r.sources[i].url
          /\ r.citations[i].captured_at = r.sources[i].captured_at
          /\ r.sources[i] = from_dict(files[r.sources[i].id].meta.v)
    /\ [i \in 1..Len(r.sources) |-> r.sources[i].id] =
           SelectSeq(r.ids, LAMBDA rid : rid \in DirsWithMeta(files, "file"))

\* C22 as stated: whenever the index returns at least one id the query returns
\* its citations and sources, one citation per source in ranking order, and an
\* id whose metadata cannot be loaded is in neither list.
C22_OneCitationPerSource ==
    (resp.op = "query" /\ resp.ids # <<>>) =>
        /\ resp.raised = "none"
        /\ CitationsMatchSources(resp)

\* C22: when the index returns at least one id, the query raises if and only if
\* the metadata file of one of these ids exists and cannot be parsed; otherwise
\* it returns one citation per included source: both lists have the same length,
\* at most top_k, the i-th citation carries the id, title, URL and captured-at
\* of the i-th source, the order is the ranking order of search_local, and an id
\* that has no metadata file is in neither list.
C22_OneCitationPerLoadedSource ==
    (resp.op = "query" /\ resp.ids # <<>>) =>
        /\ resp.raised # "none" <=>
               \E i \in 1..Len(resp.ids) : resp.ids[i] \in DirsWithMeta(files, "corrupt")
        /\ resp.raised = "none" => CitationsMatchSources(resp)

\* a query whose index returned two ids, one of them without its directory
C22_Witness ==
    /\ resp.op = "query"
    /\ resp.raised = "none"
    /\ Len(resp.ids) = 2
    /\ Len(resp.citations) = 1
    /\ Len(resp.sources) = 1

\* C23: save_resource writes the empty list of snippets only where no snippets
\* file exists, so load_snippets returns for every id what it returned before the
\* save; save_snippets makes load_snippets return the list it was given; and a
\* save_resource call appends exactly one line, the record of the resource, to
\* the ledger and leaves metadata and body holding the given values.
C23_SaveKeepsSnippets ==
    [][ /\ resp'.op = "save" =>
              \A rid \in {resp'.resource.id} :
                /\ \A r \in DOMAIN files' : load_snippets(Disk, r) =
                       load_snippets([files |-> files', ledger |-> ledger'], r)
                /\ files'[rid].snippets =
                       IF rid \in DOMAIN files /\ files[rid].snippets.k # "absent"
                       THEN files[rid].snippets ELSE File(<<>>)
                /\ ledger' = Append(ledger, to_dict(resp'.resource))
                /\ files'[rid].meta = File(to_dict(resp'.resource))
                /\ files'[rid].content = File(resp'.content_md)
                /\ \A r \in DOMAIN files \ {rid} : files'[r] = files[r]
        /\ resp'.op = "save_snippets" =>
              /\ load_snippets([files |-> files', ledger |-> ledger'], resp'.rid)
                     = resp'.snippets
              /\ ledger' = ledger
        /\ resp'.op = "load_snippets" =>
              /\ resp'.snippets = load_snippets(Disk, resp'.rid)
              /\ LibraryUnchanged ]_vars

\* a resource saved twice over the snippets kept for it: two ledger lines, the
\* snippets still there
C23_Witness ==
    /\ resp.op = "save"
    /\ Cardinality(LedgerLines(ledger, resp.resource.id)) = 2
    /\ Len(load_snippets(Disk, resp.resource.id)) = 2

\* C24: a resource of a valid id, title, URL, UTC timestamp, content hash, tag
\* list and snippet count comes back equal in every field from
\* from_dict(to_dict(r)), and load_resource(r.id) after save_resource(r, ...)
\* returns a resource equal to r.
C24_RoundTrip ==
    resp.op \in {"round_trip", "save_load"} =>
        /\ resp.back = Some(resp.resource)
        /\ \A r \in {resp.resource} :
              FromIso(Iso(r.captured_at)) = r.captured_at

\* a resource with tags, snippets and a timestamp between two seconds, saved
\* and loaded
C24_Witness ==
    /\ resp.op = "save_load"
    /\ resp.back.k = "some"
    /\ resp.resource.captured_at % TicksPerSecond # 0
    /\ resp.resource.tags = <<"t", "u">>
    /\ resp.resource.snippet_count = 2
    /\ files[resp.resource.id].meta.v.captured_at = Iso(resp.resource.captured_at)

\* what a review made of the model's answer: the outcome of _parse_response,
\* alone or inside execute
Parsed(r) ==
    IF r.op = "parse" THEN r.out
    ELSE IF r.raised = "none" THEN Value(r.report) ELSE Raises(r.raised)

\* the answer is no structured review: plain text, JSON that breaks off, JSON
\* that is no object, or an object whose overall_score is no number
NotAReview(raw) ==
    \/ raw.body.t # "object"
    \/ /\ "overall_score" \in DOMAIN raw.body.fields
       /\ raw.body.fields.overall_score.t # "number"

\* the synthetic report of a parse failure
IsParseFailure(report) ==
    /\ report.overall_score = 0
    /\ report.passed = JBool(FALSE)
    /\ Len(report.issues) = 1
    /\ report.issues[1].severity = "critical"
    /\ report.issues[1].title = JStr(ParseFailureTitle)

\* C25 as stated: for every answer of the model that is no valid structured
\* review the review does not raise, returns the synthetic report (score 0, not
\* passed, one critical issue that names the parse failure) and stores the
\* review output.
C25_ParseFailureDegrades ==
    (resp.op \in {"parse", "review"} /\ NotAReview(resp.raw)) =>
        /\ Parsed(resp).raised = "none"
        /\ IsParseFailure(Parsed(resp).v)
        /\ resp.op = "review" =>
              /\ resp.review_dir \in DOMAIN reviews
              /\ reviews[resp.review_dir].report = report_to_dict(resp.report)

\* the issues of the model's answer that ReviewIssue.from_dict accepts
Accepted(raw) ==
    SelectSeq(raw.body.fields.issues.items, LAMBDA item :
        /\ item.t = "object"
        /\ "severity" \in DOMAIN item.fields
        /\ "title" \in DOMAIN item.fields
        /\ item.fields.severity \in {JStr(SeverityOrder[i]) : i \in DOMAIN SeverityOrder})

Titles(issues) == [i \in 1..Len(issues) |-> issues[i].title]

\* C26: Severity.__lt__ is the strict total order critical < major < minor <
\* suggestion, and the issues of every report parsed from an answer of the model
\* are in non-decreasing order of it, the issues of one severity in the order
\* the model gave them, the issues of an unknown severity left out.
C26_IssuesBySeverity ==
    /\ \A i, j \in DOMAIN SeverityOrder :
          severity_lt(SeverityOrder[i], SeverityOrder[j]) <=> i < j
    /\ \A a, b, c \in {SeverityOrder[i] : i \in DOMAIN SeverityOrder} :
          /\ ~severity_lt(a, a)
          /\ a # b => (severity_lt(a, b) \/ severity_lt(b, a))
          /\ (severity_lt(a, b) /\ severity_lt(b, c)) => severity_lt(a, c)
    /\ (resp.op \in {"parse", "review"} /\ Parsed(resp).raised = "none") =>
          \A issues \in {Parsed(resp).v.issues} :
            /\ \A i, j \in 1..Len(issues) :
                  i < j => ~severity_lt(issues[j].severity, issues[i].severity)
            /\ \A i \in 1..Len(issues) :
                  \E k \in DOMAIN SeverityOrder : SeverityOrder[k] = issues[i].severity
            /\ (~IsParseFailure(Parsed(resp).v) /\ "issues" \in DOMAIN resp.raw.body.fields) =>
                  \A k \in DOMAIN SeverityOrder :
                     Titles(SelectSeq(issues, LAMBDA issue :
                                issue.severity = SeverityOrder[k]))
                       = [i \in 1..Len(SelectSeq(Accepted(resp.raw), LAMBDA item :
                                item.fields.severity.s = SeverityOrder[k])) |->
                             SelectSeq(Accepted(resp.raw), LAMBDA item :
                                item.fields.severity.s = SeverityOrder[k])[i].fields.title]

\* a report of the six issues that remain of nine the model returned out of
\* order, two of them without a field and one of an unknown severity
C26_Witness ==
    /\ resp.op = "review"
    /\ resp.raised = "none"
    /\ resp.raw.body.t = "object"
    /\ "issues" \in DOMAIN resp.raw.body.fields
    /\ resp.raw.body.fields.issues = JList(IssuesMixed)
    /\ Titles(resp.report.issues) =
          <<JStr("b"), JStr("i"), JStr("h"), JStr("a"), JStr("d"), JStr("g")>>

\* C30 as stated: in every report built from a parseable answer of the model,
\* passed is true if and only if overall_score >= the rubric's pass_threshold
\* (60 when the rubric names none), and overall_score lies in 0..100.
C30_VerdictAgreesWithRubric ==
    (/\ resp.op \in {"parse", "review"}
     /\ Parsed(resp).raised = "none"
     /\ ~IsParseFailure(Parsed(resp).v)) =>
        \A report \in {Parsed(resp).v} :
            /\ report.passed = JBool(report.overall_score >= pass_threshold(resp.rubric))
            /\ report.overall_score \in 0..100

\* C27 as stated: after any sequence of ingests and searches in one process the
\* in-memory index, its resources and every count of every token, is the index
\* a process started now would build from the ledger and the stored content,
\* whatever the length of the contents.
C27_IndexIsRebuildableCache == Indexer = load(Disk)

\* a reindex and an ingest have both run to their end
BothCompleted == At("reindex", {"done"}) /\ At("p1", {"done"})

====
